---- MODULE Spec2Model ----
(***************************************************************************)
(* Model of the page composition and publishing engine of the CMS:         *)
(*   cms/services/publisher.py  generate_page_html, replace_special_tokens *)
(*   cms/views/pages.py         add_page, edit_page, import_pages,         *)
(*                              duplicate_page, delete_page, publish_page  *)
(*                                                                         *)
(* Text is a sequence of atoms.  An atom is one character ("{", "}", ":",  *)
(* "/", " ", "\\") or one word that no regular expression of the source    *)
(* splits ("if", "page", "title", ...).  The regular expressions and the   *)
(* str.replace calls of the source are modelled by scanners over atoms.    *)
(***************************************************************************)
EXTENDS Integers, Sequences, FiniteSets, TLC

(***************************************************************************)
(* Text helpers                                                            *)
(***************************************************************************)

Min(S) == CHOOSE x \in S : \A y \in S : x <= y
Max(S) == CHOOSE x \in S : \A y \in S : x >= y

\* Characters matched by \s and removed by str.strip().
WS == {" ", "\n"}

\* The SQL NULL / Python None value of a text column.
None == <<"<None>">>

\* Python: (value or '').
OrEmpty(v) == IF v = None THEN <<>> ELSE v

\* Python truthiness of a nullable string.
Truthy(v) == v # None /\ v # <<>>

\* Python str(value): None prints as the word None.
Str(v) == IF v = None THEN <<"None">> ELSE v

\* str.lower() on the atoms that have an upper-case spelling in the model.
LowerAtom(a) ==
  CASE a = "IF" -> "if"
    [] a = "PAGE" -> "page"
    [] a = "TITLE" -> "title"
    [] a = "HTTP://" -> "http://"
    [] OTHER -> a

Lower(s) == [i \in 1..Len(s) |-> LowerAtom(s[i])]

\* str.strip()
Strip(s) ==
  LET keep == {k \in 1..Len(s) : s[k] \notin WS}
  IN  IF keep = {} THEN <<>> ELSE SubSeq(s, Min(keep), Max(keep))

\* s[i:] starts with lit (i is 1-based).
StartsWithAt(s, i, lit) ==
  /\ i + Len(lit) - 1 <= Len(s)
  /\ \A k \in 1..Len(lit) : s[i + k - 1] = lit[k]

\* lit in s
Contains(s, lit) == \E i \in 1..Len(s) : StartsWithAt(s, i, lit)

IsOpenAt(s, i) == StartsWithAt(s, i, <<"{", "{">>)
IsCloseAt(s, i) == StartsWithAt(s, i, <<"}", "}">>)

\* First index >= i holding an atom of stop, or the index after the end of s
\* when i is beyond it (regex [^...]*).
FirstOf(s, i, stop) ==
  IF i > Len(s) THEN i
  ELSE Min({k \in i..(Len(s) + 1) : k = Len(s) + 1 \/ s[k] \in stop})

\* Index after the longest run of whitespace starting at i (regex \s*).
SkipWs(s, i) ==
  IF i > Len(s) THEN i
  ELSE Min({k \in i..(Len(s) + 1) : k = Len(s) + 1 \/ s[k] \notin WS})

\* str.replace(old, new): leftmost non-overlapping occurrences, no rescan.
\* The scan jumps from one occurrence to the next.
RECURSIVE ReplaceFrom(_, _, _, _)
ReplaceFrom(s, i, old, new) ==
  LET hits == {k \in i..Len(s) : StartsWithAt(s, k, old)}
  IN  IF hits = {} THEN SubSeq(s, i, Len(s))
      ELSE SubSeq(s, i, Min(hits) - 1) \o new
           \o ReplaceFrom(s, Min(hits) + Len(old), old, new)

Replace(s, old, new) == ReplaceFrom(s, 1, old, new)

\* TRUE, once the value of v is known: the intermediate texts of a chain of
\* replacements are computed one after the other, as the code computes
\* them, and not all at once when the last one is read.
Computed(v) == v = v

RECURSIVE Flatten(_)
Flatten(ss) == IF ss = <<>> THEN <<>> ELSE Head(ss) \o Flatten(Tail(ss))

(***************************************************************************)
(* Parameter substitution: publisher.py generate_page_html, lines 351-359  *)
(***************************************************************************)

\* What the template parser of re.sub makes of the atom after a backslash
\* in the replacement string: "\n" is an escape, "\\" a backslash, an ASCII
\* letter that is no escape and a group number are errors, anything else is
\* left alone.  The model puts only one-character atoms after a backslash.
EscapeKind(a) ==
  CASE a = "n" -> "newline"
    [] a = "\\" -> "backslash"
    [] a \in {"{", "}", ":", "/", " ", "\n", "[", "]"} -> "literal"
    [] OTHER -> "error"

\* re.sub(pattern, repl, ...) with a str repl parses repl as a template
\* before any match is looked for.  Result: [ok, out]; ok = FALSE is
\* re.error being raised.
RECURSIVE ExpandTemplate(_)
ExpandTemplate(v) ==
  IF v = <<>> THEN [ok |-> TRUE, out |-> <<>>]
  ELSE IF Head(v) # "\\"
       THEN LET r == ExpandTemplate(Tail(v))
            IN  [ok |-> r.ok, out |-> <<Head(v)>> \o r.out]
       ELSE IF Len(v) = 1
            THEN [ok |-> FALSE, out |-> <<>>]
            ELSE LET kind == EscapeKind(v[2])
                     r == ExpandTemplate(SubSeq(v, 3, Len(v)))
                 IN  CASE kind = "newline" ->
                            [ok |-> r.ok, out |-> <<"\n">> \o r.out]
                       [] kind = "backslash" ->
                            [ok |-> r.ok, out |-> <<"\\">> \o r.out]
                       [] kind = "literal" ->
                            [ok |-> r.ok, out |-> <<"\\", v[2]>> \o r.out]
                       [] OTHER -> [ok |-> FALSE, out |-> <<>>]

\* Tail of the placeholder pattern after the name, from index a:
\*   (?:\s*:[^}]+)?\s*\}\}      Result: index after the match, or 0.
ParamTailEnd(s, a) ==
  LET b == SkipWs(s, a)
      j == FirstOf(s, b + 1, {"}"})
  IN  IF b <= Len(s) /\ s[b] = ":" /\ j > b + 1 /\ IsCloseAt(s, j) THEN j + 2
      ELSE IF IsCloseAt(s, b) THEN b + 2
      ELSE 0

\* r"\{\{\s*" + re.escape(param_name) + r"(?:\s*:[^}]+)?\s*\}\}" matched at
\* index i.  Result: index after the match, or 0.
ParamMatchEnd(s, i, name) ==
  IF ~IsOpenAt(s, i) THEN 0
  ELSE LET ks == {k \in (i + 2)..SkipWs(s, i + 2) :
                    /\ StartsWithAt(s, k, name)
                    /\ ParamTailEnd(s, k + Len(name)) # 0}
       IN  IF ks = {} THEN 0 ELSE ParamTailEnd(s, Max(ks) + Len(name))

\* pattern.sub(repl, content) for one parameter, repl already expanded.
RECURSIVE SubFrom(_, _, _, _)
SubFrom(s, i, name, repl) ==
  LET hits == {k \in i..Len(s) : ParamMatchEnd(s, k, name) # 0}
  IN  IF hits = {} THEN SubSeq(s, i, Len(s))
      ELSE SubSeq(s, i, Min(hits) - 1) \o repl
           \o SubFrom(s, ParamMatchEnd(s, Min(hits), name), name, repl)

\* One iteration of the loop over parameters.items().
SubstituteOne(content, name, value) ==
  LET t == ExpandTemplate(Str(value))
  IN  IF t.ok THEN [ok |-> TRUE, out |-> SubFrom(content, 1, name, t.out)]
      ELSE [ok |-> FALSE, out |-> content]

\* The loop over parameters.items(); parameters is the sequence of
\* <<name, value>> rows in the order the dict holds them.
RECURSIVE SubstituteParams(_, _)
SubstituteParams(content, parameters) ==
  LET Remaining(r) ==
        IF Computed(r) /\ r.ok THEN SubstituteParams(r.out, Tail(parameters))
        ELSE r
  IN  IF parameters = <<>> THEN [ok |-> TRUE, out |-> content]
      ELSE Remaining(SubstituteOne(content, Head(parameters)[1],
                                   Head(parameters)[2]))

(***************************************************************************)
(* Conditionals: publisher.py replace_special_tokens, lines 44-63          *)
(***************************************************************************)

\* \{\{\s*if\s+([^}]+)\s*\}\}  (IGNORECASE) matched at index i.
\* Result: index after the match, or 0.
IfOpenEnd(s, i) ==
  IF ~IsOpenAt(s, i) THEN 0
  ELSE LET k == SkipWs(s, i + 2)
           j == FirstOf(s, k + 1, {"}"})
       IN  IF /\ k + 1 <= Len(s)
              /\ LowerAtom(s[k]) = "if"
              /\ s[k + 1] \in WS
              /\ j >= k + 3
              /\ IsCloseAt(s, j)
           THEN j + 2 ELSE 0

\* group(1) of that match: the atoms between "if" and the closing braces.
IfOpenKey(s, i) ==
  LET k == SkipWs(s, i + 2)
      j == FirstOf(s, k + 1, {"}"})
  IN  SubSeq(s, k + 1, j - 1)

\* \{\{\s*/if\s*\}\}  (IGNORECASE) matched at index i.
EndIfEnd(s, i) ==
  IF ~IsOpenAt(s, i) THEN 0
  ELSE LET k == SkipWs(s, i + 2)
       IN  IF /\ k + 1 <= Len(s)
              /\ s[k] = "/"
              /\ LowerAtom(s[k + 1]) = "if"
              /\ IsCloseAt(s, SkipWs(s, k + 2))
           THEN SkipWs(s, k + 2) + 2 ELSE 0

\* Start indices at which the whole pattern matches.
CondStarts(s) ==
  {i \in 1..Len(s) :
     /\ IfOpenEnd(s, i) # 0
     /\ \E e \in IfOpenEnd(s, i)..Len(s) : EndIfEnd(s, e) # 0}

\* pattern.search(content_out): the leftmost match, its body the shortest.
\* Only used when CondStarts(s) is not empty.
CondSearch(s) ==
  LET Closed(i, b, e) ==
        [start |-> i, key |-> IfOpenKey(s, i), inner |-> SubSeq(s, b, e - 1),
         end |-> EndIfEnd(s, e)]
      Opened(i, b) == Closed(i, b, Min({x \in b..Len(s) : EndIfEnd(s, x) # 0}))
      StartingAt(i) == Opened(i, IfOpenEnd(s, i))
  IN  StartingAt(Min(CondStarts(s)))

\* _evaluate_condition(key) without key.lower(): keys are compared as
\* written.
EvaluateCondition_CaseSensitive(key, page) ==
  LET k == Strip(key)
  IN  CASE k = <<"page", ":", "featured">> ->
             Truthy(page.featured_png) \/ Truthy(page.featured_webp)
        [] k = <<"page", ":", "excerpt">> -> Strip(OrEmpty(page.excerpt)) # <<>>
        [] k = <<"page", ":", "title">> -> Strip(OrEmpty(page.title)) # <<>>
        [] OTHER -> FALSE

\* _evaluate_condition(key)
EvaluateCondition(key, page) ==
  LET k == Lower(Strip(key))
  IN  CASE k = <<"page", ":", "featured">> ->
             Truthy(page.featured_png) \/ Truthy(page.featured_webp)
        [] k = <<"page", ":", "excerpt">> -> Strip(OrEmpty(page.excerpt)) # <<>>
        [] k = <<"page", ":", "title">> -> Strip(OrEmpty(page.title)) # <<>>
        [] OTHER -> FALSE

\* One iteration of the loop, alternative: a region whose condition holds
\* is left as it is written.
CondStep_KeepRegion(s, page) ==
  LET Replaced(m) ==
        SubSeq(s, 1, m.start - 1)
        \o (IF EvaluateCondition(m.key, page)
            THEN SubSeq(s, m.start, m.end - 1) ELSE <<>>)
        \o SubSeq(s, m.end, Len(s))
  IN  Replaced(CondSearch(s))

\* One iteration of the "while True" loop, for content with a match.
CondStep(s, page) ==
  LET Replaced(m) ==
        SubSeq(s, 1, m.start - 1)
        \o (IF EvaluateCondition(m.key, page) THEN m.inner ELSE <<>>)
        \o SubSeq(s, m.end, Len(s))
  IN  Replaced(CondSearch(s))

\* The whole loop.
RECURSIVE ApplyConditionals(_, _)
ApplyConditionals(s, page) ==
  LET Continue(t) == IF Computed(t) THEN ApplyConditionals(t, page) ELSE t
  IN  IF CondStarts(s) = {} THEN s ELSE Continue(CondStep(s, page))

(***************************************************************************)
(* Parameter extraction: pages.py extract_parameters_from_content          *)
(***************************************************************************)

\* \{\{\s*(?:page|blog|config):[^}]+\}\}  matched at index i.
SystemTokenEnd(s, i) ==
  IF ~IsOpenAt(s, i) THEN 0
  ELSE LET k == SkipWs(s, i + 2)
           j == FirstOf(s, k + 2, {"}"})
       IN  IF /\ k + 1 <= Len(s)
              /\ s[k] \in {"page", "blog", "config"}
              /\ s[k + 1] = ":"
              /\ j > k + 2
              /\ IsCloseAt(s, j)
           THEN j + 2 ELSE 0

\* \{\{\s*if\s+[^}]+\}\}  matched at index i (no IGNORECASE here).
SystemIfEnd(s, i) ==
  IF ~IsOpenAt(s, i) THEN 0
  ELSE LET k == SkipWs(s, i + 2)
           j == FirstOf(s, k + 1, {"}"})
       IN  IF /\ k + 1 <= Len(s)
              /\ s[k] = "if"
              /\ s[k + 1] \in WS
              /\ j >= k + 3
              /\ IsCloseAt(s, j)
           THEN j + 2 ELSE 0

\* re.sub(pattern, '', content) for the two system patterns, in turn.
RECURSIVE StripSystemTokens(_, _)
StripSystemTokens(s, i) ==
  LET hits == {k \in i..Len(s) : SystemTokenEnd(s, k) # 0}
  IN  IF hits = {} THEN SubSeq(s, i, Len(s))
      ELSE SubSeq(s, i, Min(hits) - 1)
           \o StripSystemTokens(s, SystemTokenEnd(s, Min(hits)))

RECURSIVE StripSystemIfs(_, _)
StripSystemIfs(s, i) ==
  LET hits == {k \in i..Len(s) : SystemIfEnd(s, k) # 0}
  IN  IF hits = {} THEN SubSeq(s, i, Len(s))
      ELSE SubSeq(s, i, Min(hits) - 1)
           \o StripSystemIfs(s, SystemIfEnd(s, Min(hits)))

\* \{\{\s*([^}:]+)(?::([^}]+))?\s*\}\}  matched at index i.
\* Result: [end, name] with end = 0 when there is no match.
GenericMatch(s, i) ==
  IF ~IsOpenAt(s, i) THEN [end |-> 0, name |-> <<>>]
  ELSE LET j == FirstOf(s, i + 2, {"}", ":"})
           t == FirstOf(s, j + 1, {"}"})
           name == Strip(SubSeq(s, i + 2, j - 1))
       IN  IF j <= i + 2 \/ j > Len(s) THEN [end |-> 0, name |-> <<>>]
           ELSE IF s[j] = ":"
                THEN IF t > j + 1 /\ IsCloseAt(s, t)
                     THEN [end |-> t + 2, name |-> name]
                     ELSE [end |-> 0, name |-> <<>>]
                ELSE IF IsCloseAt(s, j)
                     THEN [end |-> j + 2, name |-> name]
                     ELSE [end |-> 0, name |-> <<>>]

\* re.findall followed by the de-duplication loop: the parameter names in
\* order of first occurrence.
RECURSIVE FindNames(_, _, _)
FindNames(s, i, seen) ==
  LET hits == {k \in i..Len(s) : GenericMatch(s, k).end # 0}
      m == GenericMatch(s, Min(hits))
  IN  IF hits = {} THEN seen
      ELSE IF \E k \in 1..Len(seen) : seen[k] = m.name
           THEN FindNames(s, m.end, seen)
           ELSE FindNames(s, m.end, Append(seen, m.name))

extract_parameters_from_content(content) ==
  IF content = None \/ content = <<>> THEN <<>>
  ELSE FindNames(StripSystemIfs(StripSystemTokens(content, 1), 1), 1, <<>>)

has_parameters(content) == extract_parameters_from_content(content) # <<>>

(***************************************************************************)
(* Reserved tokens: publisher.py replace_special_tokens, lines 65-332      *)
(*                                                                         *)
(* db is the result of the queries the function can issue:                 *)
(*   db.settings   key -> value, None when the row is absent               *)
(*   db.container  slug of the first blog container page, None when absent *)
(*   db.cats       the blog_categories rows, in query order                *)
(*   db.posts      the published blog pages, in query order                *)
(*   db.catposts   category id -> the blog pages mapped to it, in order    *)
(* A result is [out, queries]: the text and the queries issued, in order.  *)
(***************************************************************************)

DefaultBaseUrl == <<"http://localhost:5000">>
DefaultBlogTemplate == <<"<ul class=blog-latest>", "\n", "{", "items", "}", "\n", "</ul>">>
DefaultPerPage == 20

Tok(body) == <<"{", "{">> \o body \o <<"}", "}">>

SettingOr(db, key, default) ==
  IF db.settings[key] = None THEN default ELSE db.settings[key]

\* A media url, alternative: the base url ahead of every stored value.
BuildMediaUrl_AlwaysPrefixed(path, base_url) ==
  IF path = <<>> THEN <<>> ELSE base_url \o path

\* _build_media_url(path); path is '' when the variant is unset.
BuildMediaUrl(path, base_url) ==
  IF path = <<>> THEN <<>>
  ELSE IF LowerAtom(Head(path)) \in {"http://", "https://"} THEN path
  ELSE base_url \o path

\* int(value) of a settings value.  Result: [ok, val].
ParseInt(v) ==
  CASE v = <<"0">> -> [ok |-> TRUE, val |-> 0]
    [] v = <<"1">> -> [ok |-> TRUE, val |-> 1]
    [] v = <<"2">> -> [ok |-> TRUE, val |-> 2]
    [] v = <<"3">> -> [ok |-> TRUE, val |-> 3]
    [] v = <<"-", "1">> -> [ok |-> TRUE, val |-> 0 - 1]
    [] v = <<" ", "2", " ">> -> [ok |-> TRUE, val |-> 2]
    [] OTHER -> [ok |-> FALSE, val |-> 0]

\* articles_per_page, lines 137-145.
ArticlesPerPage(db) ==
  LET v == db.settings["blog_articles_per_page"]
      n == IF v = None THEN DefaultPerPage
           ELSE IF ParseInt(v).ok THEN ParseInt(v).val ELSE DefaultPerPage
  IN  IF n < 1 THEN 1 ELSE n

\* The number of pages, alternative: the quotient rounded down.
TotalPages_Floor(total_posts, articles_per_page) ==
  total_posts \div articles_per_page

\* total_pages, line 207.
TotalPages(total_posts, articles_per_page) ==
  (total_posts + articles_per_page - 1) \div articles_per_page

\* {{blog:categories}}, lines 116-123.
RECURSIVE CategoryItems(_, _, _)
CategoryItems(cats, base_url, container_slug) ==
  IF cats = <<>> THEN <<>>
  ELSE <<"<li><a href=">> \o base_url \o <<"/">> \o container_slug
         \o <<".html?category=">> \o Head(cats).slug \o <<">">>
         \o Head(cats).title \o <<"</a></li>">>
         \o CategoryItems(Tail(cats), base_url, container_slug)

CategoriesHtml(db, base_url) ==
  LET container_slug == IF db.container = None THEN <<"index">> ELSE db.container
  IN  <<"<ul>">> \o CategoryItems(db.cats, base_url, container_slug) \o <<"</ul>">>

\* post_attrs of one post, lines 160-193, as <<key, value>> pairs in the
\* order of the dict.
PostAttrs(r, base_url) ==
  LET title == IF Truthy(r.title) THEN r.title ELSE r.slug
      png == IF Truthy(r.featured_png) THEN r.featured_png ELSE <<>>
      webp == IF Truthy(r.featured_webp) THEN r.featured_webp ELSE <<>>
      author == IF Truthy(r.author) THEN r.author ELSE <<>>
      pdate == IF Truthy(r.published_date) THEN r.published_date ELSE <<>>
      img(path) == <<"<img src=">> \o base_url \o path \o <<" alt=">> \o title \o <<">">>
      featured_img == IF png # <<>> THEN img(png)
                      ELSE IF webp # <<>> THEN img(webp) ELSE <<>>
      m1 == IF author # <<>> THEN <<"<span class=blog-author>By ">> \o author \o <<"</span>">>
            ELSE <<>>
      m2 == IF pdate # <<>> THEN <<"<span class=blog-date>">> \o pdate \o <<"</span>">>
            ELSE <<>>
      metadata == IF m1 = <<>> /\ m2 = <<>> THEN <<>>
                  ELSE <<"<div class=blog-meta>">> \o m1
                       \o (IF m1 # <<>> /\ m2 # <<>> THEN <<" | ">> ELSE <<>>)
                       \o m2 \o <<"</div>">>
  IN  << <<"title", title>>,
         <<"slug", r.slug>>,
         <<"href", base_url \o <<"/blog/">> \o r.slug \o <<".html">> >>,
         <<"excerpt", Strip(OrEmpty(r.excerpt))>>,
         <<"author", author>>,
         <<"published_date", pdate>>,
         <<"featured_png", png>>,
         <<"featured_webp", webp>>,
         <<"featured_image", featured_img>>,
         <<"metadata", metadata>>,
         <<"base_url", base_url>> >>

\* The loop over post_attrs.items(), lines 196-202: three syntaxes per key.
RECURSIVE FillItem(_, _)
FillItem(item_html, attrs) ==
  IF attrs = <<>> THEN item_html
  ELSE LET key == Head(attrs)[1]
           value == Head(attrs)[2]
           a == Replace(item_html, <<"{", "{", " ", key, " ", "}", "}">>, value)
           b == Replace(a, <<"{", "{", key, "}", "}">>, value)
           c == Replace(b, <<"{", key, "}">>, value)
       IN  IF Computed(<<a, b, c>>) THEN FillItem(c, Tail(attrs)) ELSE c

RECURSIVE LatestItems(_, _, _)
LatestItems(posts, blog_template, base_url) ==
  IF posts = <<>> THEN <<>>
  ELSE <<FillItem(blog_template, PostAttrs(Head(posts), base_url))>>
       \o LatestItems(Tail(posts), blog_template, base_url)

\* {{blog:latest}}, lines 156-297.
BlogLatestHtml(db) ==
  LET base_url == SettingOr(db, "base_url", DefaultBaseUrl)
      blog_template == SettingOr(db, "blog_latest_template", DefaultBlogTemplate)
      articles_per_page == ArticlesPerPage(db)
      items == LatestItems(db.posts, blog_template, base_url)
      total_posts == Len(items)
      total_pages == TotalPages(total_posts, articles_per_page)
      posts_html ==
        IF Contains(blog_template, <<"{", "items", "}">>)
        THEN Replace(blog_template, <<"{", "items", "}">>, Flatten(items))
        ELSE <<"<ul class=blog-latest id=blog-latest-list>">> \o Flatten(items) \o <<"</ul>">>
  IN  IF db.posts # <<>>
      THEN <<"<div class=blog-pagination-container>">> \o posts_html
           \o <<"<nav>", "Page 1 of ", ToString(total_pages), " (",
                ToString(total_posts), " articles)", "</nav>", "</div>",
                "<script>", "itemsPerPage=", ToString(articles_per_page),
                "totalItems=", ToString(total_posts),
                "totalPages=", ToString(total_pages), "</script>">>
      ELSE <<"<ul class=blog-latest></ul>">>

\* _replace_category_posts(match) for category id n, lines 309-325.
RECURSIVE CategoryPostItems(_, _)
CategoryPostItems(posts, base_url) ==
  IF posts = <<>> THEN <<>>
  ELSE <<"<li><a href=">> \o base_url \o <<"/blog/">> \o Head(posts).slug
         \o <<".html>">> \o Str(Head(posts).title) \o <<"</a></li>">>
         \o CategoryPostItems(Tail(posts), base_url)

CategoryPostsHtml(db, n, base_url) ==
  LET posts == IF n \in DOMAIN db.catposts THEN db.catposts[n] ELSE <<>>
  IN  IF posts = <<>> THEN <<"<ul>", "</ul>">>
      ELSE <<"<ul>">> \o CategoryPostItems(posts, base_url) \o <<"</ul>">>

Digits == {"0", "1", "2", "3", "7"}

DigitVal(a) ==
  CASE a = "0" -> 0 [] a = "1" -> 1 [] a = "2" -> 2 [] a = "3" -> 3 [] OTHER -> 7

\* int() of a run of digits.
RECURSIVE DigitsVal(_)
DigitsVal(ds) ==
  IF ds = <<>> THEN 0 ELSE 10 * DigitsVal(SubSeq(ds, 1, Len(ds) - 1)) + DigitVal(ds[Len(ds)])

\* \{\{\s*blog:category:\[(\d+)\]\s*\}\}  (bracket = TRUE) and
\* \{\{\s*blog:category:(\d+)\s*\}\}      (bracket = FALSE) matched at i.
\* Result: [end, n] with end = 0 when there is no match.
CategoryMatch(s, i, bracket) ==
  LET k == SkipWs(s, i + 2)
      d == IF bracket THEN k + 5 ELSE k + 4
      e == FirstOf(s, d, {a \in {s[x] : x \in 1..Len(s)} : a \notin Digits})
      c == IF bracket THEN e + 1 ELSE e
      z == SkipWs(s, c)
  IN  IF /\ IsOpenAt(s, i)
         /\ StartsWithAt(s, k, <<"blog", ":", "category", ":">>)
         /\ (bracket => StartsWithAt(s, k + 4, <<"[">>))
         /\ e > d
         /\ (bracket => StartsWithAt(s, e, <<"]">>))
         /\ IsCloseAt(s, z)
      THEN [end |-> z + 2, n |-> DigitsVal(SubSeq(s, d, e - 1))]
      ELSE [end |-> 0, n |-> 0]

\* _re.sub(pattern, _replace_category_posts, content_out) from index i.
RECURSIVE CategorySub(_, _, _, _, _)
CategorySub(s, i, bracket, db, base_url) ==
  LET hits == {k \in i..Len(s) : CategoryMatch(s, k, bracket).end # 0}
      m == CategoryMatch(s, Min(hits), bracket)
      r == CategorySub(s, m.end, bracket, db, base_url)
  IN  IF hits = {} THEN [out |-> SubSeq(s, i, Len(s)), queries |-> <<>>]
      ELSE [out |-> SubSeq(s, i, Min(hits) - 1)
                    \o CategoryPostsHtml(db, m.n, base_url) \o r.out,
            queries |-> <<"category_posts">> \o r.queries]

\* Lines 65-91: the {{page:...}} tokens, replaced unconditionally.
PageTokens(content, page, base_url) ==
  Replace(
    Replace(
      Replace(
        Replace(content, Tok(<<"page", ":", "title">>), OrEmpty(page.title)),
        Tok(<<"page", ":", "excerpt">>), OrEmpty(page.excerpt)),
      Tok(<<"page", ":", "featured", ":", "png">>),
      BuildMediaUrl(IF Truthy(page.featured_png) THEN page.featured_png ELSE <<>>,
                    base_url)),
    Tok(<<"page", ":", "featured", ":", "webp">>),
    BuildMediaUrl(IF Truthy(page.featured_webp) THEN page.featured_webp ELSE <<>>,
                  base_url))

\* Lines 79-81 and 93-99: base_url is read once for the media urls and once
\* more when {{config:base_url}} occurs.
ConfigToken(c, base_url) ==
  IF Computed(c)
  THEN [out |-> Replace(c, Tok(<<"config", ":", "base_url">>), base_url),
        queries |-> <<"settings:base_url">>
                    \o (IF Contains(c, Tok(<<"config", ":", "base_url">>))
                        THEN <<"settings:base_url">> ELSE <<>>)]
  ELSE [out |-> c, queries |-> <<>>]

\* Lines 101-124: {{blog:categories}}.
CategoriesToken(r, db, base_url) ==
  IF Computed(r) /\ Contains(r.out, Tok(<<"blog", ":", "categories">>))
  THEN [out |-> Replace(r.out, Tok(<<"blog", ":", "categories">>),
                        CategoriesHtml(db, base_url)),
        queries |-> r.queries \o <<"pages:container", "blog_categories">>]
  ELSE r

\* Lines 126-298: {{blog:latest}}.
LatestToken(r, db) ==
  IF Computed(r) /\ Contains(r.out, Tok(<<"blog", ":", "latest">>))
  THEN [out |-> Replace(r.out, Tok(<<"blog", ":", "latest">>), BlogLatestHtml(db)),
        queries |-> r.queries
                    \o <<"settings:base_url", "settings:blog_latest_template",
                         "settings:blog_articles_per_page", "pages:blog_latest">>]
  ELSE r

\* Lines 300-330: {{blog:category:[N]}} when bracket, {{blog:category:N}}
\* otherwise.
CategoryTokens(r, bracket, db, base_url) ==
  LET Substituted(t) ==
        IF Computed(t) THEN [out |-> t.out, queries |-> r.queries \o t.queries]
        ELSE r
  IN  IF Computed(r) THEN Substituted(CategorySub(r.out, 1, bracket, db, base_url))
      ELSE r

\* Lines 65-332: everything after the conditional loop.
ResolveTokens(content, page, db) ==
  LET base_url == SettingOr(db, "base_url", DefaultBaseUrl)
  IN  CategoryTokens(
        CategoryTokens(
          LatestToken(
            CategoriesToken(
              ConfigToken(PageTokens(content, page, base_url), base_url),
              db, base_url),
            db),
          TRUE, db, base_url),
        FALSE, db, base_url)

\* replace_special_tokens(raw_content), lines 35-332.
replace_special_tokens(raw_content, page, db) ==
  LET Tokens(content_out) ==
        IF Computed(content_out) THEN ResolveTokens(content_out, page, db)
        ELSE [out |-> content_out, queries |-> <<>>]
  IN  IF raw_content = <<>> \/ ~Contains(raw_content, <<"{", "{">>)
      THEN [out |-> raw_content, queries |-> <<>>]
      ELSE Tokens(ApplyConditionals(raw_content, page))

(***************************************************************************)
(* Block composer: publisher.py generate_page_html, lines 334-363          *)
(*                                                                         *)
(* pt is one row of the page_templates query joined with its parameters:   *)
(*   [id, use_default, default_content, custom_content, parameters]        *)
(* A result is [ok, out, queries]; ok = FALSE is an exception propagating  *)
(* out of generate_page_html.                                              *)
(***************************************************************************)

\* Selection, alternative: a stored override is used whenever there is one.
SelectContent_PreferOverride(pt) ==
  IF Truthy(pt.custom_content) THEN pt.custom_content ELSE pt.default_content

\* Lines 338-341.
SelectContent(pt) ==
  IF pt.use_default THEN pt.default_content ELSE pt.custom_content

\* Line 352: if content and '{{' in content.
HasMarker(content) ==
  content # None /\ content # <<>> /\ Contains(content, <<"{", "{">>)

\* Lines 354-359; an empty dict skips the loop.
ParameterStage(content, parameters) ==
  IF parameters # <<>> THEN SubstituteParams(content, parameters)
  ELSE [ok |-> TRUE, out |-> content]

\* Lines 359-363 for one block instance whose parameter loop gave p.
AfterParameters(p, page, db) ==
  IF Computed(p) /\ p.ok
  THEN [ok |-> TRUE] @@ replace_special_tokens(p.out, page, db)
  ELSE [ok |-> FALSE, out |-> <<>>, queries |-> <<>>]

\* Lines 338-363 for one block instance.  html_content += None raises.
RenderBlock(pt, page, db) ==
  LET content == SelectContent(pt)
  IN  IF HasMarker(content)
      THEN AfterParameters(ParameterStage(content, pt.parameters), page, db)
      ELSE IF content = None THEN [ok |-> FALSE, out |-> <<>>, queries |-> <<>>]
      ELSE [ok |-> TRUE, out |-> content, queries |-> <<>>]

\* Line 363, html_content += content, for the block r and the blocks after
\* it.
Appended(r, rest) ==
  IF Computed(r) /\ r.ok /\ rest.ok
  THEN [ok |-> TRUE, out |-> r.out \o rest.out,
        queries |-> r.queries \o rest.queries]
  ELSE [ok |-> FALSE, out |-> <<>>, queries |-> <<>>]

\* The loop "for pt in page_templates", html_content accumulated.
RECURSIVE ComposeBlocks(_, _, _)
ComposeBlocks(page_templates, page, db) ==
  IF page_templates = <<>> THEN [ok |-> TRUE, out |-> <<>>, queries |-> <<>>]
  ELSE Appended(RenderBlock(Head(page_templates), page, db),
                ComposeBlocks(Tail(page_templates), page, db))

(***************************************************************************)
(* State                                                                   *)
(*                                                                         *)
(* The store and the publish root, as the handlers of pages.py see them:   *)
(*   pages, page_templates      the tables, one record per row             *)
(*   page_template_parameters   the table in rowid order                   *)
(*   next_page_id, next_pt_id   the AUTOINCREMENT sequences                *)
(*   files                      path -> content of the files under pub/    *)
(*   sitemap                    the entries of pub/sitemap.xml, None       *)
(*                              while the file does not exist              *)
(*   ops                        requests handled so far                    *)
(*   last                       the request handled last and its outcome   *)
(* One run of the loop body of generate_page_html over one block:          *)
(*   pc            the statement the run is at                             *)
(*   pt            the row of the block instance and its parameters        *)
(*   page          the page row                                            *)
(*   content       the local variable content                              *)
(*   html_content  the local variable html_content                         *)
(*   queries       the queries issued so far                               *)
(*   stages        the resolution stages applied to content so far         *)
(***************************************************************************)
VARIABLES pages, page_templates, page_template_parameters,
          page_template_defs,
          next_page_id, next_pt_id, files, sitemap, plan, ops, last,
          pc, pt, page, content, html_content, queries, stages,
          settings, articles, resolved, dom

storeVars == <<pages, page_templates, page_template_parameters,
               page_template_defs,
               next_page_id, next_pt_id, files, sitemap, plan, ops, last>>
renderVars == <<pc, pt, page, content, html_content, queries, stages>>
tokenVars == <<settings, articles, resolved, dom>>
vars == <<pages, page_templates, page_template_parameters,
          page_template_defs, next_page_id, next_pt_id, files, sitemap, plan, ops, last,
          pc, pt, page, content, html_content, queries, stages,
          settings, articles, resolved, dom>>

(***************************************************************************)
(* Inputs of the block pipeline                                            *)
(*                                                                         *)
(* A fragment is written  pre  open  body  close  post : the text before a *)
(* conditional region, its opening marker, its body, its closing marker    *)
(* and the text after it.  A fragment without a region has open and close  *)
(* empty.  key is the predicate key the opening marker carries.            *)
(***************************************************************************)

IfPageTitle == Tok(<<"if", " ", "page", ":", "title">>)
IfPageTitleUpper == Tok(<<"IF", " ", "PAGE", ":", "TITLE">>)
IfPageTitleSpaced == Tok(<<" ", "if", " ", "page", ":", "title", " ">>)
IfPageExcerpt == Tok(<<"if", " ", "page", ":", "excerpt">>)
IfPageFeatured == Tok(<<"if", " ", "page", ":", "featured">>)
IfUnknown == Tok(<<"if", " ", "foo">>)
EndIf == Tok(<<"/", "if">>)
EndIfSpaced == Tok(<<" ", "/", "IF", " ">>)
NamePlaceholder == Tok(<<" ", "name", " ">>)
NameTyped == Tok(<<"name", ":", "wysiwyg">>)
BlogLatest == Tok(<<"blog", ":", "latest">>)
PageTitle == Tok(<<"page", ":", "title">>)

Fragment(pre, open, key, body, close, post) ==
  [pre |-> pre, open |-> open, key |-> key, body |-> body, close |-> close,
   post |-> post]

Build(f) == f.pre \o f.open \o f.body \o f.close \o f.post

\* Fragments with one well-formed region.
RegionFragments ==
  { Fragment(<<"A">>, IfPageTitle, "title", <<"B">>, EndIf, <<"C">>),
    Fragment(<<"A">>, IfPageTitleUpper, "title", <<"B">>, EndIf, <<"C">>),
    Fragment(<<>>, IfPageTitleSpaced, "title", <<"B">>, EndIfSpaced, <<"C">>),
    Fragment(<<"A">>, IfPageExcerpt, "excerpt", <<"B">>, EndIf, <<>>),
    Fragment(<<"A">>, IfPageFeatured, "featured", <<"B", "\n", "B">>, EndIf, <<"C">>),
    Fragment(<<"A">>, IfUnknown, "foo", <<"B">>, EndIf, <<"C">>),
    Fragment(<<"A">>, IfPageExcerpt, "excerpt", <<"B">> \o NamePlaceholder, EndIf, <<"C">>),
    Fragment(<<"A">>, IfPageExcerpt, "excerpt", <<"B">> \o BlogLatest, EndIf, <<"C">>),
    Fragment(<<"A">>, IfPageExcerpt, "excerpt",
             <<"B">> \o NamePlaceholder \o BlogLatest, EndIf, <<"C">>),
    Fragment(IfPageTitle \o <<"D">> \o EndIf, IfPageExcerpt, "excerpt",
             <<"B">>, EndIf, <<"C">>) }

\* Fragments whose mini-language is malformed: an opening marker that is
\* never closed, a closing marker that nothing opens, a token that is no
\* reserved token.
MalformedFragments ==
  { Fragment(<<"A">>, IfPageTitle, "title", <<"B">>, <<>>, <<>>),
    Fragment(<<"A">>, <<>>, "", <<>>, EndIf, <<"C">>),
    Fragment(<<"A">> \o Tok(<<"foo", ":", "bar">>), <<>>, "", <<>>, <<>>, <<>>) }

\* Fragments without a region.
PlainFragments ==
  { Fragment(<<"A">>, <<>>, "", <<>>, <<>>, <<>>),
    Fragment(<<"Hello ">> \o NamePlaceholder, <<>>, "", <<>>, <<>>, <<>>),
    Fragment(NameTyped \o <<"A">> \o NamePlaceholder, <<>>, "", <<>>, <<>>, <<>>),
    Fragment(<<"A">> \o PageTitle, <<>>, "", <<>>, <<>>, <<>>),
    Fragment(Tok(<<"config", ":", "base_url">>) \o Tok(<<"page", ":", "featured", ":", "png">>),
             <<>>, "", <<>>, <<>>, <<>>),
    Fragment(BlogLatest, <<>>, "", <<>>, <<>>, <<>>),
    Fragment(Tok(<<"blog", ":", "category", ":", "[", "1", "]">>)
               \o Tok(<<"blog", ":", "categories">>), <<>>, "", <<>>, <<>>, <<>>) }

Fragments == RegionFragments \cup MalformedFragments \cup PlainFragments

\* A region inside a region: the first match runs from the outer opening
\* marker to the inner closing marker.
NestedRegion ==
  Fragment(<<>>, IfPageTitle, "title", IfPageExcerpt \o <<"B">>, EndIf,
           <<"C">> \o EndIf)

\* A closing marker written inside the braces of another one: the text
\* holds one closing marker, and removing it joins the braces around it
\* into a second one.
SplitClosingMarker ==
  Fragment(<<>>, IfPageTitle, "title", IfPageExcerpt \o <<"B", "{", "{">>,
           EndIf, <<"/", "if", "}", "}">>)

NestedFragments == {NestedRegion, SplitClosingMarker}

\* The content a block can select: a fragment, the empty string, or NULL
\* (an instance with use_default = 0 whose custom_content is NULL).
Contents ==
  {Build(f) : f \in Fragments \cup NestedFragments} \cup {<<>>, None}

\* The page rows the pipeline is run for.
PageRows ==
  { [title |-> <<"T">>, excerpt |-> <<"E">>, featured_png |-> <<"/img/a.png">>,
     featured_webp |-> None],
    [title |-> <<>>, excerpt |-> None, featured_png |-> None,
     featured_webp |-> None],
    [title |-> <<" ">>, excerpt |-> <<" ", "\n">>, featured_png |-> <<>>,
     featured_webp |-> <<"/img/a.webp">>] }

\* The parameter bindings an instance can carry: <<name, value>>.
Bindings ==
  { <<<<"name">>, <<"V">>>>,
    <<<<"name">>, <<"\\", "n">>>>,
    <<<<"name">>, <<"\\", "d">>>>,
    <<<<"name">>, EndIf>>,
    <<<<"page">>, <<"V">>>>,
    <<<<"/", "if">>, <<>>>> }

\* Bound on the number of parameter bindings of one block instance.
MaxParams == 1

\* The dicts of at most n bindings, as sequences without a repeated name.
RECURSIVE ParameterMaps(_)
ParameterMaps(n) ==
  IF n = 0 THEN {<<>>}
  ELSE LET shorter == ParameterMaps(n - 1)
           fresh(x) == /\ Len(x[1]) = n - 1
                       /\ \A k \in 1..Len(x[1]) : x[1][k][1] # x[2][1]
       IN  shorter \cup
           {Append(x[1], x[2]) : x \in {y \in shorter \X Bindings : fresh(y)}}

\* The store the pipeline reads: one published blog post, one category.
RenderPost ==
  [title |-> <<"Post">>, slug |-> <<"p1">>, excerpt |-> <<"Ex">>,
   featured_png |-> None, featured_webp |-> None, author |-> <<"Ann">>,
   published_date |-> <<"2024-01-02">>]

RenderDb ==
  [settings |-> [base_url |-> <<"https://x.test">>,
                 blog_latest_template |-> <<"<li>", "{", "title", "}", "</li>">>,
                 blog_articles_per_page |-> <<"2">>],
   container |-> <<"blog">>,
   cats |-> <<[title |-> <<"News">>, slug |-> <<"news">>]>>,
   posts |-> <<RenderPost>>,
   catposts |-> [n \in {1} |-> <<RenderPost>>]]

(***************************************************************************)
(* The block pipeline: publisher.py generate_page_html, lines 336-363,     *)
(* with replace_special_tokens (lines 35-332) inlined as the code calls it *)
(***************************************************************************)

Range(s) == {s[i] : i \in 1..Len(s)}

\* No request has been handled.
NoRequest == [op |-> "none", page_id |-> 0, ok |-> TRUE, order |-> <<>>, out |-> <<>>]

\* An instance row that is not being rendered.
NoBlock ==
  [use_default |-> TRUE, default_content |-> <<>>, custom_content |-> None,
   parameters |-> <<>>]

\* The query of publisher.py lines 25-31 joins page_templates with
\* page_template_defs and sorts on sort_order alone.  SQLite runs the join
\* with either table in the outer loop, as the statistics stored in the
\* database make it plan, and hands rows of equal sort_order to the caller
\* in the order the loops produced them.  No request writes statistics.
JoinOrders == {"pt", "t"}

\* The rows of page_template_defs as the site's operator has set the table
\* up, id -> [content, is_default, default_parameters]: a heading with a
\* reserved token and a greeting with a parameter and its default, both
\* default blocks, and a conditional region.
SiteBlocks ==
  [t \in 1..3 |->
     CASE t = 1 -> [content |-> <<"<h1>">> \o PageTitle \o <<"</h1>">>,
                    is_default |-> TRUE, default_parameters |-> <<>>]
       [] t = 2 -> [content |-> <<"Hello ">> \o NamePlaceholder,
                    is_default |-> TRUE,
                    default_parameters |-> <<<<<<"name">>, <<"World">>>>>>]
       [] t = 3 -> [content |-> IfPageTitle \o <<"X">> \o EndIf,
                    is_default |-> FALSE, default_parameters |-> <<>>]]

\* No sitemap.xml has been written.
NoSitemap == [written |-> FALSE, urls |-> <<>>]

\* The database and the publish root after init_db, before any page exists.
StoreInit ==
  /\ pages = {}
  /\ page_templates = {}
  /\ page_template_parameters = <<>>
  /\ page_template_defs = SiteBlocks
  /\ next_page_id = 1
  /\ next_pt_id = 1
  /\ files = <<>>
  /\ sitemap = NoSitemap
  /\ plan \in JoinOrders
  /\ ops = 0
  /\ last = NoRequest

\* No block is being rendered.
RenderIdle ==
  /\ pc = "idle"
  /\ pt = NoBlock
  /\ page = [title |-> <<>>, excerpt |-> None, featured_png |-> None,
             featured_webp |-> None]
  /\ content = <<>>
  /\ html_content = <<>>
  /\ queries = <<>>
  /\ stages = <<>>

(***************************************************************************)
(* Token resolution against a store with settings and dated blog pages,    *)
(* and the pagination script {{blog:latest}} emits                         *)
(*                                                                         *)
(*   settings   the rows of the settings table the resolver reads          *)
(*   articles   the rows of pages, with the columns its queries read       *)
(*   resolved   the last call of replace_special_tokens: its argument, the *)
(*              page row, the text returned, the queries issued and the    *)
(*              rows the posts query fetched                               *)
(*   dom        the document the returned text is loaded in: whether the   *)
(*              script has run, what it shows, its currentPage             *)
(***************************************************************************)

\* Text of single characters compares as SQLite compares TEXT: byte by
\* byte, a proper prefix first.
CharCode(c) ==
  CASE c = " " -> 32 [] c = "-" -> 45 [] c = "0" -> 48 [] c = "1" -> 49
    [] c = "2" -> 50 [] c = "3" -> 51 [] c = "4" -> 52 [] c = "5" -> 53
    [] c = "6" -> 54 [] c = "7" -> 55 [] c = "8" -> 56 [] c = "9" -> 57
    [] c = ":" -> 58 [] OTHER -> 84

RECURSIVE TextLess(_, _)
TextLess(a, b) ==
  IF b = <<>> THEN FALSE
  ELSE IF a = <<>> THEN TRUE
  ELSE IF Head(a) # Head(b) THEN CharCode(Head(a)) < CharCode(Head(b))
  ELSE TextLess(Tail(a), Tail(b))

\* date("now") on day d of January 2024, CURRENT_TIMESTAMP on that day,
\* and the created_at import_pages stores for a file that names none
\* (pages.py line 445).
DateOf(d) == <<"2", "0", "2", "4", "-", "0", "1", "-", "0", ToString(d)>>
TimestampOf(d) == DateOf(d) \o <<" ", "1", "0", ":", "0", "0", ":", "0", "0">>
ImportedAt ==
  <<"2", "0", "2", "4", "-", "0", "1", "-", "0", "1", "T",
    "0", "0", ":", "0", "0", ":", "0", "0">>

\* A row of pages with its dates; updated_at is what the INSERT gave it,
\* the CURRENT_TIMESTAMP of the creation or the value of the import file.
Article(id, type, published, published_date, created_at) ==
  [id |-> id, type |-> type, published |-> published,
   title |-> <<"T", ToString(id)>>, slug |-> <<"p" \o ToString(id)>>,
   excerpt |-> None, featured_png |-> None, featured_webp |-> None,
   author |-> None, published_date |-> published_date,
   created_at |-> created_at, updated_at |-> created_at]

\* The rows the pages table can hold.  add_page gives a blog the date of
\* its creation as published_date (line 540) and a page none (line 543);
\* the save of edit_page stores the date field of the form, the empty
\* string when the field is empty (lines 726, 789); import_pages stores
\* NULL for a file without published_date (line 444); publish_page and
\* the publish of edit_page set published (lines 878, 1203).
ArticlePool ==
  { Article(1, "blog", TRUE, DateOf(1), TimestampOf(1)),
    Article(2, "blog", TRUE, DateOf(2), TimestampOf(1)),
    Article(3, "blog", TRUE, None, ImportedAt),
    Article(4, "blog", TRUE, <<>>, TimestampOf(3)),
    Article(5, "page", TRUE, None, TimestampOf(2)),
    Article(6, "blog", FALSE, DateOf(3), TimestampOf(3)) }

\* Bound on the number of rows of pages.
MaxArticles == 3

\* An item template without the legacy {items} placeholder.
ItemTemplate == <<"<li>", "{", "slug", "}", "</li>">>

\* The settings rows: init_db inserts none of the three keys (db.py lines
\* 229-248), so that each is absent unless the database got the row
\* elsewhere.
SettingsPool ==
  LET S(b, t, n) ==
        [base_url |-> b, blog_latest_template |-> t,
         blog_articles_per_page |-> n]
  IN  { S(None, None, None),
        S(None, None, <<"1">>),
        S(<<"https://x.test">>, ItemTemplate, None),
        S(None, ItemTemplate, <<"1">>),
        S(None, ItemTemplate, <<"2">>),
        S(None, ItemTemplate, <<" ", "2", " ">>),
        S(None, ItemTemplate, <<"0">>),
        S(None, ItemTemplate, <<"-", "1">>),
        S(None, ItemTemplate, <<"a", "b", "c">>),
        S(None, ItemTemplate, <<>>) }

\* ORDER BY COALESCE(published_date, created_at) DESC, lines 147-155: NULL
\* gives way to created_at, the empty string does not; rows of equal key
\* come in the order of the table scan.
SortKey(r) == IF r.published_date = None THEN r.created_at ELSE r.published_date

RECURSIVE LatestPosts(_)
LatestPosts(rs) ==
  IF rs = {} THEN <<>>
  ELSE LET first == CHOOSE x \in rs :
                      \A y \in rs \ {x} :
                        \/ TextLess(SortKey(y), SortKey(x))
                        \/ SortKey(y) = SortKey(x) /\ x.id < y.id
       IN  <<first>> \o LatestPosts(rs \ {first})

\* The results of the queries of replace_special_tokens in the store.
TokenDb(st, rows) ==
  [settings |-> st, container |-> None, cats |-> <<>>,
   posts |-> LatestPosts({r \in rows : r.type = "blog" /\ r.published}),
   catposts |-> [n \in {} |-> <<>>]]

\* The fragments resolved and the page rows they are resolved for.
TokenFragments ==
  { Tok(<<"blog", ":", "latest">>),
    <<"A">> \o Tok(<<"foo", ":", "bar">>),
    <<"A">>,
    Tok(<<"blog", ":", "category", ":", "a", "b", "c">>) \o <<"Z">>,
    Tok(<<"blog", ":", "category", ":", "[", "x", "]">>) \o <<"Z">>,
    Tok(<<"blog", ":", "category", ":">>) \o <<"Z">>,
    Tok(<<"blog", ":", "category", ":", "[", "1", "]">>) \o <<"Z">>,
    Tok(<<"page", ":", "featured", ":", "png">>) \o <<"|">>
      \o Tok(<<"page", ":", "featured", ":", "webp">>),
    Tok(<<"config", ":", "base_url">>),
    Tok(<<"blog", ":", "categories">>) }

TokenPages ==
  { [title |-> <<"T">>, excerpt |-> None, featured_png |-> None,
     featured_webp |-> <<>>],
    [title |-> <<"T">>, excerpt |-> None,
     featured_png |-> <<"/blog/content/", "f.png">>,
     featured_webp |-> <<"https://", "cdn.test/f.webp">>],
    [title |-> <<"T">>, excerpt |-> None,
     featured_png |-> <<"HTTP://", "cdn.test/f.png">>,
     featured_webp |-> <<"ftp://", "cdn.test/f.webp">>] }

NoResult ==
  [content |-> <<>>, page |-> [title |-> <<>>, excerpt |-> None,
                               featured_png |-> None, featured_webp |-> None],
   out |-> <<>>, queries |-> <<>>, posts |-> <<>>, called |-> FALSE]

\* The document before its script runs: every item displayed, the
\* navigation displayed, both buttons of class disabled (lines 220-228).
NoDom ==
  [loaded |-> FALSE, nav_hidden |-> FALSE, listening |-> FALSE,
   currentPage |-> 1, visible |-> {}, prev_disabled |-> TRUE,
   next_disabled |-> TRUE]

\* No fragment is being resolved.
TokenIdle ==
  /\ settings = [base_url |-> None, blog_latest_template |-> None,
                 blog_articles_per_page |-> None]
  /\ articles = {}
  /\ resolved = NoResult
  /\ dom = NoDom

TokenInit ==
  /\ StoreInit
  /\ RenderIdle
  /\ settings \in SettingsPool
  /\ articles \in {a \in SUBSET ArticlePool : Cardinality(a) <= MaxArticles}
  /\ resolved = NoResult
  /\ dom = NoDom

\* base_url.rstrip('/'), line 395.
RECURSIVE RStripSlash(_)
RStripSlash(v) ==
  IF v # <<>> /\ v[Len(v)] = "/" THEN RStripSlash(SubSeq(v, 1, Len(v) - 1))
  ELSE v

\* A date column of a row of pages; the rows of the page store of the
\* requests are kept without their dates, which are NULL there.
DateColumn(r, c) == IF c \in DOMAIN r THEN r[c] ELSE None

\* COALESCE(published_date, updated_at, created_at), line 404: the first
\* that is not NULL, the empty string being one.
SitemapKey(r) ==
  IF DateColumn(r, "published_date") # None THEN r.published_date
  ELSE IF DateColumn(r, "updated_at") # None THEN r.updated_at
  ELSE DateColumn(r, "created_at")

\* The query of lines 397-406: the published rows, those of type 'page'
\* first, each group in descending order of the key; rows of equal key
\* come in the order of the table scan.
RECURSIVE SitemapRows(_)
SitemapRows(rs) ==
  LET Group(r) == IF r.type = "page" THEN 1 ELSE 2
      Before(x, y) ==
        \/ Group(x) < Group(y)
        \/ /\ Group(x) = Group(y)
           /\ \/ TextLess(SitemapKey(y), SitemapKey(x))
              \/ SitemapKey(y) = SitemapKey(x) /\ x.id < y.id
  IN  IF rs = {} THEN <<>>
      ELSE LET first == CHOOSE x \in rs : \A y \in rs \ {x} : Before(x, y)
           IN  <<first>> \o SitemapRows(rs \ {first})

\* datetime.now() when the sitemap is generated.
Today == <<"2", "0", "2", "4", "-", "0", "1", "-", "0", "9">>

\* Lines 425-440: lastmod is published_date, updated_at when that is NULL
\* or empty.  A value with a 'T' goes through fromisoformat, any other
\* through strptime with '%Y-%m-%d', which takes a date and nothing after
\* it; the day is written as YYYY-MM-DD, and today's when the value is
\* missing or was not parsed.
LastmodStr(r) ==
  LET lastmod == IF Truthy(DateColumn(r, "published_date"))
                 THEN r.published_date ELSE DateColumn(r, "updated_at")
  IN  IF ~Truthy(lastmod) THEN Today
      ELSE IF \E i \in 1..Len(lastmod) : lastmod[i] = "T"
           THEN IF Len(lastmod) > 10 /\ lastmod[11] = "T"
                THEN SubSeq(lastmod, 1, 10) ELSE Today
           ELSE IF Len(lastmod) = 10 THEN lastmod ELSE Today

\* generate_sitemap(), lines 384-466: the url entries of sitemap.xml in the
\* order they are written.
generate_sitemap(ps) ==
  LET base_url == RStripSlash(IF settings.base_url = None THEN DefaultBaseUrl
                              ELSE settings.base_url)
      Urls(rows) ==
        [i \in 1..Len(rows) |->
         [loc |-> base_url
                    \o (IF rows[i].type = "blog" THEN <<"/blog/">>
                        ELSE <<"/">>)
                    \o rows[i].slug \o <<".html">>,
          lastmod |-> LastmodStr(rows[i]),
          changefreq |-> IF rows[i].type = "blog" THEN "weekly" ELSE "monthly",
          priority |-> IF rows[i].type = "blog" THEN "0.8" ELSE "1.0"]]
  IN  [written |-> TRUE, urls |-> Urls(SitemapRows({x \in ps : x.published}))]

\* generate_sitemap() on the store with dated rows.
GenerateSitemap ==
  /\ ~sitemap.written
  /\ sitemap' = generate_sitemap(articles)
  /\ UNCHANGED <<pages, page_templates, page_template_parameters,
                 page_template_defs, next_page_id, next_pt_id, files, plan,
                 ops, last>>
  /\ UNCHANGED <<renderVars, tokenVars>>

\* replace_special_tokens(raw_content), lines 35-332, called for a
\* fragment; posts is the result of the query of lines 147-155 when the
\* call issued it.
ResolveFragment ==
  /\ ~resolved.called
  /\ \E raw_content \in TokenFragments, row \in TokenPages :
     \E r \in {replace_special_tokens(raw_content, row,
                                      TokenDb(settings, articles))} :
       resolved' =
         [content |-> raw_content, page |-> row, out |-> r.out,
          queries |-> r.queries,
          posts |-> IF Contains(raw_content, Tok(<<"blog", ":", "latest">>))
                    THEN LatestPosts({a \in articles :
                                        a.type = "blog" /\ a.published})
                    ELSE <<>>,
          called |-> TRUE]
  /\ dom' = [NoDom EXCEPT !.visible = 0..(Len(resolved'.posts) - 1)]
  /\ UNCHANGED <<settings, articles>>
  /\ UNCHANGED <<storeVars, renderVars>>

\* The integer the emitted script assigns after the given label.
EmbeddedInt(out, label) ==
  LET at == CHOOSE i \in 1..Len(out) : out[i] = label
  IN  CHOOSE n \in 0..(DefaultPerPage + MaxArticles) : ToString(n) = out[at + 1]

HasScript(out) == \E i \in 1..Len(out) : out[i] = "<script>"

\* showPage(page), lines 255-275, for a list of children items.
showPage(d, pg, itemsPerPage, totalItems, totalPages, children) ==
  LET startIndex == (pg - 1) * itemsPerPage
      endIndex == IF startIndex + itemsPerPage < totalItems
                  THEN startIndex + itemsPerPage ELSE totalItems
  IN  [d EXCEPT !.visible = {i \in startIndex..(endIndex - 1) : i < children},
                !.prev_disabled = (pg = 1),
                !.next_disabled = (pg = totalPages),
                !.currentPage = pg]

\* The listener of DOMContentLoaded, lines 236-291.  The element of id
\* blog-latest-list exists when line 215 wrapped the items; each item is
\* one child of it.
DOMContentLoaded ==
  /\ resolved.called
  /\ HasScript(resolved.out)
  /\ ~dom.loaded
  /\ LET itemsPerPage == EmbeddedInt(resolved.out, "itemsPerPage=")
         totalItems == EmbeddedInt(resolved.out, "totalItems=")
         totalPages == EmbeddedInt(resolved.out, "totalPages=")
         blogList == \E i \in 1..Len(resolved.out) :
                       resolved.out[i] = "<ul class=blog-latest id=blog-latest-list>"
     IN  IF ~blogList \/ totalPages <= 1
         THEN dom' = [dom EXCEPT !.loaded = TRUE, !.nav_hidden = TRUE]
         ELSE dom' = showPage([dom EXCEPT !.loaded = TRUE, !.listening = TRUE],
                              1, itemsPerPage, totalItems, totalPages,
                              Len(resolved.posts))
  /\ UNCHANGED <<settings, articles, resolved>>
  /\ UNCHANGED <<storeVars, renderVars>>

\* The click listener of prev-btn, lines 278-281.
ClickPrevious ==
  /\ dom.listening
  /\ IF dom.currentPage > 1
     THEN dom' = showPage(dom, dom.currentPage - 1,
                          EmbeddedInt(resolved.out, "itemsPerPage="),
                          EmbeddedInt(resolved.out, "totalItems="),
                          EmbeddedInt(resolved.out, "totalPages="),
                          Len(resolved.posts))
     ELSE UNCHANGED dom
  /\ UNCHANGED <<settings, articles, resolved>>
  /\ UNCHANGED <<storeVars, renderVars>>

\* The click listener of next-btn, lines 283-286.
ClickNext ==
  /\ dom.listening
  /\ IF dom.currentPage < EmbeddedInt(resolved.out, "totalPages=")
     THEN dom' = showPage(dom, dom.currentPage + 1,
                          EmbeddedInt(resolved.out, "itemsPerPage="),
                          EmbeddedInt(resolved.out, "totalItems="),
                          EmbeddedInt(resolved.out, "totalPages="),
                          Len(resolved.posts))
     ELSE UNCHANGED dom
  /\ UNCHANGED <<settings, articles, resolved>>
  /\ UNCHANGED <<storeVars, renderVars>>

TokenNext ==
  \/ ResolveFragment
  \/ DOMContentLoaded
  \/ ClickPrevious
  \/ ClickNext
  \/ GenerateSitemap

TokenSpec == TokenInit /\ [][TokenNext]_vars

\* Line 336, "for pt in page_templates", on its first row: the row holds
\* the selected text in one column and another text in the other.
RenderInit ==
  /\ StoreInit
  /\ TokenIdle
  /\ pc = "select"
  /\ \E u \in BOOLEAN, c \in Contents, m \in ParameterMaps(MaxParams) :
       pt = [use_default |-> u,
             default_content |-> IF u THEN c ELSE <<"default">>,
             custom_content |-> IF u THEN <<"override">> ELSE c,
             parameters |-> m]
  /\ page \in PageRows
  /\ content = <<>>
  /\ html_content = <<>>
  /\ queries = <<>>
  /\ stages = <<>>

\* The stage that starts after a stage, alternative order: the conditional
\* loop ahead of the parameter loop.
StageAfter_ConditionalsFirst(stage) ==
  CASE stage = "select" -> "conditionals"
    [] stage = "conditionals" -> "params"
    [] stage = "params" -> "tokens"
    [] OTHER -> "append"

\* The order of the statements of lines 352-361 and 54-332: the parameter
\* loop, then the call of replace_special_tokens, which runs the
\* conditional loop and then the token replacements.
StageAfter(stage) ==
  CASE stage = "select" -> "params"
    [] stage = "params" -> "conditionals"
    [] stage = "conditionals" -> "tokens"
    [] OTHER -> "append"

\* Lines 338-352: select the content, read the parameters, test for '{{'.
SelectStage ==
  /\ pc = "select"
  /\ content' = SelectContent(pt)
  /\ queries' = Append(queries, "page_template_parameters")
  /\ pc' = IF HasMarker(SelectContent(pt)) THEN StageAfter("select") ELSE "append"
  /\ UNCHANGED <<pt, page, html_content, stages>>
  /\ UNCHANGED <<storeVars, tokenVars>>

\* Lines 354-359: the loop over parameters.items(); re.error leaves
\* generate_page_html.
ParamStage ==
  /\ pc = "params"
  /\ \E r \in {ParameterStage(content, pt.parameters)} :
         IF r.ok
         THEN /\ content' = r.out
              /\ stages' = Append(stages, "params")
              /\ pc' = StageAfter("params")
         ELSE /\ pc' = "raised"
              /\ UNCHANGED <<content, stages>>
  /\ UNCHANGED <<pt, page, html_content, queries>>
  /\ UNCHANGED <<storeVars, tokenVars>>

\* Lines 36-37: replace_special_tokens returns its argument at once.
EarlyReturn ==
  /\ pc = "conditionals"
  /\ "conditionals" \notin Range(stages)
  /\ ~HasMarker(content)
  /\ pc' = "append"
  /\ UNCHANGED <<pt, page, content, html_content, queries, stages>>
  /\ UNCHANGED <<storeVars, tokenVars>>

\* Lines 55-63: one iteration of the loop that finds a match.
ConditionalIteration ==
  /\ pc = "conditionals"
  /\ CondStarts(content) # {}
  /\ content' = CondStep(content, page)
  /\ stages' = Append(stages, "conditionals")
  /\ UNCHANGED <<pc, pt, page, html_content, queries>>
  /\ UNCHANGED <<storeVars, tokenVars>>

\* Lines 56-58: the search finds nothing, break.
ConditionalBreak ==
  /\ pc = "conditionals"
  /\ HasMarker(content) \/ "conditionals" \in Range(stages)
  /\ CondStarts(content) = {}
  /\ pc' = StageAfter("conditionals")
  /\ UNCHANGED <<pt, page, content, html_content, queries, stages>>
  /\ UNCHANGED <<storeVars, tokenVars>>

\* Lines 65-332: the token replacements and the queries they issue.
TokenStage ==
  /\ pc = "tokens"
  /\ \E r \in {ResolveTokens(content, page, RenderDb)} :
         /\ content' = r.out
         /\ queries' = queries \o r.queries
  /\ stages' = Append(stages, "tokens")
  /\ pc' = StageAfter("tokens")
  /\ UNCHANGED <<pt, page, html_content>>
  /\ UNCHANGED <<storeVars, tokenVars>>

\* Line 363: html_content += content; TypeError when content is None.
AppendStage ==
  /\ pc = "append"
  /\ IF content = None
     THEN /\ pc' = "raised"
          /\ UNCHANGED html_content
     ELSE /\ pc' = "done"
          /\ html_content' = html_content \o content
  /\ UNCHANGED <<pt, page, content, queries, stages>>
  /\ UNCHANGED <<storeVars, tokenVars>>

RenderNext ==
  \/ SelectStage
  \/ ParamStage
  \/ EarlyReturn
  \/ ConditionalIteration
  \/ ConditionalBreak
  \/ TokenStage
  \/ AppendStage

RenderSpec == RenderInit /\ [][RenderNext]_vars

\* ENABLED <<ConditionalIteration>>_vars, written out: an iteration appends
\* to stages, so it changes the state whenever its guard holds.
CanIterate == pc = "conditionals" /\ CondStarts(content) # {}

\* generate_page_html is one sequential call: when replace_special_tokens
\* can return at once (lines 36-37), run an iteration or break (55-63),
\* it does.  The third conjunct is WF_vars(ConditionalIteration).
RenderLive ==
  /\ RenderInit
  /\ [][RenderNext]_vars
  /\ WF_vars(EarlyReturn)
  /\ WF_vars(ConditionalBreak)
  /\ ([]<>(~CanIterate) \/ []<><<ConditionalIteration>>_vars)

(***************************************************************************)
(* Properties of the block pipeline, checked under RenderSpec              *)
(***************************************************************************)

\* The predicate of a conditional region as section 4.2 of the design
\* states it: title and excerpt hold when they are not empty after
\* trimming, featured when either image variant is set, no other key holds.
NonBlank(v) == v # None /\ \E k \in 1..Len(v) : v[k] \notin WS

PredicateHolds(key, row) ==
  CASE key = "title" -> NonBlank(row.title)
    [] key = "excerpt" -> NonBlank(row.excerpt)
    [] key = "featured" ->
         \/ (row.featured_png # None /\ row.featured_png # <<>>)
         \/ (row.featured_webp # None /\ row.featured_webp # <<>>)
    [] OTHER -> FALSE

\* The region of fragment f is the first one of its text and is closed by
\* its own closing marker.
OneRegion(f) ==
  /\ f.open # <<>>
  /\ f.close # <<>>
  /\ ~Contains(f.pre, <<"{", "{">>)
  /\ \A i \in 1..Len(f.body) : EndIfEnd(f.body, i) = 0

\* The text the block instance selects.
Selected == SelectContent(pt)

StageRank(stage) ==
  CASE stage = "params" -> 1
    [] stage = "conditionals" -> 2
    [] OTHER -> 3

ReservedEnd(s, i) ==
  IF SystemTokenEnd(s, i) # 0 THEN SystemTokenEnd(s, i)
  ELSE IF IfOpenEnd(s, i) # 0 THEN IfOpenEnd(s, i)
  ELSE EndIfEnd(s, i)

RECURSIVE ReservedFrom(_, _)
ReservedFrom(s, i) ==
  LET hits == {k \in i..Len(s) : ReservedEnd(s, k) # 0}
      e == ReservedEnd(s, Min(hits))
  IN  IF hits = {} THEN <<>>
      ELSE <<SubSeq(s, Min(hits), e - 1)>> \o ReservedFrom(s, e)

\* C3, as claimed: whatever the names of the bound parameters, the parameter
\* stage leaves every reserved token and every conditional marker of the
\* fragment as it was (stated for values that hold no brace, which add no
\* token of their own).
C3_ReservedUntouched ==
  (/\ stages = <<"params">>
   /\ \A k \in 1..Len(pt.parameters) : ~Contains(Str(pt.parameters[k][2]), <<"{">>))
  => ReservedFrom(content, 1) = ReservedFrom(Selected, 1)

\* C4, as claimed: the body of a region whose predicate is false for the
\* page is not touched by the parameter stage, causes no store query for a
\* token it holds, and leaves nothing in the output.
C4_FalseRegionInert ==
  \A f \in RegionFragments :
    (Selected = Build(f) /\ OneRegion(f) /\ ~PredicateHolds(f.key, page))
    => /\ stages = <<"params">> => Contains(content, f.body)
       /\ pc = "done" => /\ "pages:blog_latest" \notin Range(queries)
                         /\ ~Contains(html_content, <<"B">>)
                         /\ ~Contains(html_content, EndIf)

\* The substitution section 4.1 of the design states: every placeholder of
\* a bound name becomes the bound value, character for character.
RECURSIVE ExactFrom(_, _, _)
ExactFrom(s, i, bound) ==
  LET hit(k) == {n \in 1..Len(bound) : ParamMatchEnd(s, k, bound[n][1]) # 0}
      hits == {k \in i..Len(s) : hit(k) # {}}
      b == bound[Min(hit(Min(hits)))]
  IN  IF hits = {} THEN SubSeq(s, i, Len(s))
      ELSE SubSeq(s, i, Min(hits) - 1) \o Str(b[2])
           \o ExactFrom(s, ParamMatchEnd(s, Min(hits), b[1]), bound)

\* C5, as claimed: the parameter stage completes for every value and yields
\* the fragment with each placeholder of a bound name replaced by exactly
\* the bound value, everything else unchanged.
C5_ExactSubstitution ==
  /\ pc = "raised" => ~HasMarker(Selected)
  /\ stages = <<"params">> => content = ExactFrom(Selected, 1, pt.parameters)

\* C7: a region {{if K}}B{{/if}} becomes B when the predicate of K holds for
\* the page and the empty string when it does not; K is read without regard
\* to case, a key other than page:title, page:excerpt and page:featured
\* never holds.
C7_RegionReplaced ==
  [][\A f \in RegionFragments :
       (pc = "conditionals" /\ content = Build(f) /\ OneRegion(f))
       => content' = f.pre
                     \o (IF PredicateHolds(f.key, page) THEN f.body ELSE <<>>)
                     \o f.post]_vars

\* A region whose key is written in upper case, on a page with a title, has
\* been replaced by its body.
C7_Witness ==
  /\ stages = <<"params", "conditionals">>
  /\ Selected = <<"A">> \o IfPageTitleUpper \o <<"B">> \o EndIf \o <<"C">>
  /\ NonBlank(page.title)
  /\ content = <<"A", "B", "C">>

\* No placeholder of a bound name occurs in text s.
NoBoundPlaceholder(s) ==
  \A n \in 1..Len(pt.parameters) :
    \A k \in 1..Len(s) : ParamMatchEnd(s, k, pt.parameters[n][1]) = 0

\* C9, as claimed: for content with an unterminated {{if K}}, a stray
\* {{/if}} or a {{...}} token that is neither a bound parameter nor a
\* reserved token, the block is rendered without an exception and the text
\* is in the output as it was written.
C9_MalformedVerbatim ==
  \A f \in MalformedFragments :
    (Selected = Build(f) /\ NoBoundPlaceholder(Build(f)))
    => /\ pc # "raised"
       /\ pc = "done" => html_content = Build(f)


(***************************************************************************)
(* The store                                                               *)
(*                                                                         *)
(* Rows:                                                                   *)
(*   pages           [id, title, slug, type, published, mode,              *)
(*                    is_blog_container, excerpt]                          *)
(*   page_templates  [id, page_id, template_id, use_default,               *)
(*                    custom_content, sort_order]                          *)
(*   page_template_parameters                                              *)
(*                   [page_template_id, parameter_name, parameter_value]   *)
(*   page_template_defs                                                    *)
(*                   id -> [content, is_default, default_parameters]       *)
(* A slug is a text.  Featured images are not set by the requests modelled *)
(* here; add_page gives a blog page an author and a published_date, which  *)
(* no block of page_template_defs below reads: the three are left out of   *)
(* the rows and read as NULL.                                              *)
(***************************************************************************)

\* Bounds: requests handled, page rows inserted, block rows inserted.
MaxOps == 3
MaxPages == 2
MaxBlocks == 4

\* What the forms and the import files carry.
Titles == {<<"T">>}
Slugs == {<<"a">>, <<"b">>, <<"..", "/", "x">>}
Override == <<"O">> \o NamePlaceholder
ParamValue == <<"V">>

\* template_group_blocks: group -> its template ids in sort_order 1, 2, ...
\* Group 1 has is_default_page = 1, group 2 has is_default_blog = 1.
template_group_blocks ==
  [g \in 1..2 |-> IF g = 1 THEN <<1, 2>> ELSE <<3, 2>>]

DefaultGroup(default_type) == IF default_type = "blog" THEN 2 ELSE 1

RowsOf(rows, pid) == {r \in rows : r.page_id = pid}

\* The result sets "ORDER BY sort_order" can return: rows with equal
\* sort_order come in any order.
Orders(rows) ==
  {s \in [1..Cardinality(rows) -> rows] :
     \A i, j \in 1..Cardinality(rows) :
       i < j => s[i] # s[j] /\ s[i].sort_order <= s[j].sort_order}

\* Row a is produced before row b by the join run in the given order.
ProducedBefore(a, b, join) ==
  IF join = "t" /\ a.template_id # b.template_id
  THEN a.template_id < b.template_id
  ELSE a.id < b.id

\* cursor.fetchall() of the query of publisher.py lines 25-31.
FetchPageTemplates(rows, pid, join) ==
  CHOOSE s \in Orders(RowsOf(rows, pid)) :
    \A i, j \in 1..Len(s) :
      (i < j /\ s[i].sort_order = s[j].sort_order)
      => ProducedBefore(s[i], s[j], join)

\* publisher.py lines 343-349: the dict built from the parameter rows of
\* one instance, as <<name, value>> pairs in the order of the dict.
ParametersOf(params, ptid) ==
  LET rows == SelectSeq(params, LAMBDA r : r.page_template_id = ptid)
      first(k) == \A j \in 1..(k - 1) :
                     rows[j].parameter_name # rows[k].parameter_name
      keys == SelectSeq([k \in 1..Len(rows) |-> k], first)
      value(name) ==
        rows[Max({j \in 1..Len(rows) : rows[j].parameter_name = name})].parameter_value
  IN  [i \in 1..Len(keys) |->
         <<rows[keys[i]].parameter_name, value(rows[keys[i]].parameter_name)>>]

\* One row of the query of lines 25-31 with its parameters.
JoinedRow(defs, r, params) ==
  [use_default |-> r.use_default,
   default_content |-> defs[r.template_id].content,
   custom_content |-> r.custom_content,
   parameters |-> ParametersOf(params, r.id)]

\* The columns of a page row the pipeline reads.
PageRow(p) ==
  [title |-> p.title, excerpt |-> p.excerpt,
   featured_png |-> IF "featured_png" \in DOMAIN p THEN p.featured_png
                    ELSE None,
   featured_webp |-> None]

\* The tables the reserved tokens read: the settings rows of the database,
\* no category, the published blog posts.  After init_db no settings row
\* for base_url, blog_latest_template or blog_articles_per_page exists, so
\* that every item of {{blog:latest}} is the default template with nothing
\* filled in; the posts are listed in descending id.
RECURSIVE PostsOf(_)
PostsOf(posts) ==
  IF posts = {} THEN <<>>
  ELSE LET p == CHOOSE x \in posts : \A y \in posts : x.id >= y.id
       IN  <<[title |-> p.title, slug |-> p.slug, excerpt |-> p.excerpt,
              featured_png |-> None, featured_webp |-> None, author |-> None,
              published_date |-> None]>> \o PostsOf(posts \ {p})

StoreDb(st, ps) ==
  LET containers == {p \in ps : p.is_blog_container}
  IN  [settings |-> st,
       container |-> IF containers = {} THEN None
                     ELSE (CHOOSE p \in containers :
                             \A q \in containers : p.id <= q.id).slug,
       cats |-> <<>>,
       posts |-> PostsOf({p \in ps : p.type = "blog" /\ p.published}),
       catposts |-> [n \in {} |-> <<>>]]

\* The file a page is written to, alternative: every page directly under
\* the publish root.
OutputPath_Flat(p) == <<"pub", "/">> \o p.slug \o <<".html">>

\* Lines 366-377: the file a page is written to.
OutputPath(p) ==
  IF p.type = "blog" THEN <<"pub", "/", "blog", "/">> \o p.slug \o <<".html">>
  ELSE <<"pub", "/">> \o p.slug \o <<".html">>

\* open(filename, 'w') and f.write(html_content): the write succeeds, or
\* makedirs or open raises and the file is as it was, or open truncates the
\* file and write raises.
WriteOutcomes == {"written", "open_failed", "write_failed"}

Put(fs, path, text) ==
  [x \in DOMAIN fs \cup {path} |-> IF x = path THEN text ELSE fs[x]]

\* The outcome of the loop of lines 336-363.
Composed(r) ==
  IF Computed(r) /\ r.ok THEN [result |-> "composed", out |-> r.out]
  ELSE [result |-> "raised", out |-> <<>>]

\* generate_page_html, lines 18-363, for the row order the query returned:
\* result is "not_found" (the tuple ("Page not found", 404)), "raised" or
\* "composed" with html_content in out.
HtmlContent(defs, st, ps, params, pid, order) ==
  IF ~\E p \in ps : p.id = pid
  THEN [result |-> "not_found", out |-> <<>>]
  ELSE Composed(ComposeBlocks(
                  [i \in 1..Len(order) |-> JoinedRow(defs, order[i], params)],
                  PageRow(CHOOSE x \in ps : x.id = pid), StoreDb(st, ps)))

\* generate_page_html(page_id): html is HtmlContent for the page, lines
\* 365-382 write it with the given outcome.  result is "filename",
\* "not_found" or "raised"; fs are the files afterwards.
generate_page_html(ps, fs, pid, html, outcome) ==
  IF html.result # "composed"
  THEN [result |-> html.result, fs |-> fs, out |-> <<>>]
  ELSE LET p == CHOOSE x \in ps : x.id = pid
       IN  IF outcome = "written"
           THEN [result |-> "filename", fs |-> Put(fs, OutputPath(p), html.out),
                 out |-> html.out]
           ELSE [result |-> "raised",
                 fs |-> IF outcome = "write_failed"
                        THEN Put(fs, OutputPath(p), <<>>) ELSE fs,
                 out |-> html.out]

\* The outcome of a request, as the variable last records it.
Request(op, pid, ok, order, out) ==
  [op |-> op, page_id |-> pid, ok |-> ok, order |-> order, out |-> out]


(***************************************************************************)
(* The requests: pages.py                                                  *)
(***************************************************************************)

Init == StoreInit /\ RenderIdle /\ TokenIdle

\* A row of pages as add_page, import_pages and duplicate_page insert it;
\* is_blog_container and excerpt take their column defaults.
NewPage(id, title, slug, type, published, mode) ==
  [id |-> id, title |-> title, slug |-> slug, type |-> type,
   published |-> published, mode |-> mode, is_blog_container |-> FALSE,
   excerpt |-> None]

\* Lines 560-564 and 595-599: the block instances inserted for group g,
\* ids from first on; custom_content is NULL, use_default its default 1.
GroupRows(pid, first, g) ==
  {[id |-> first + k - 1, page_id |-> pid,
    template_id |-> template_group_blocks[g][k], use_default |-> TRUE,
    custom_content |-> None, sort_order |-> k] :
     k \in 1..Len(template_group_blocks[g])}

\* Lines 569-580, 604-615 and 915-926: the rows for default_parameters.
DefaultParameterRows(ptid, tid) ==
  LET d == page_template_defs[tid].default_parameters
  IN  [k \in 1..Len(d) |->
         [page_template_id |-> ptid, parameter_name |-> d[k][1],
          parameter_value |-> d[k][2]]]

GroupParameterRows(first, g) ==
  Flatten([k \in 1..Len(template_group_blocks[g]) |->
             DefaultParameterRows(first + k - 1, template_group_blocks[g][k])])

\* The slug check, alternative: no slug is ever found in use.
SlugInUse_Never(ps, slug, id) == FALSE

\* SELECT id FROM pages WHERE slug = ? (add_page, lines 524-525, id = 0)
\* and ... AND id != ? (edit_page, lines 739-740).
SlugInUse(ps, slug, id) == \E q \in ps : q.slug = slug /\ q.id # id

\* add_page(), POST, lines 510-625.  A request without a title or with a
\* slug in use is redirected with nothing changed.
AddPage ==
  /\ ops < MaxOps
  /\ next_page_id <= MaxPages
  /\ \E title \in Titles, slug_input \in Slugs, default_type \in {"page", "blog"},
        template_group_id \in 0..2 :
       LET g == IF template_group_id # 0 THEN template_group_id
                ELSE DefaultGroup(default_type)
           n == Len(template_group_blocks[g])
       IN  /\ ~SlugInUse(pages, slug_input, 0)
           /\ next_pt_id + n - 1 <= MaxBlocks
           /\ pages' = pages \cup {NewPage(next_page_id, title, slug_input,
                                           default_type, FALSE, "simple")}
           /\ page_templates' =
                page_templates \cup GroupRows(next_page_id, next_pt_id, g)
           /\ page_template_parameters' =
                page_template_parameters \o GroupParameterRows(next_pt_id, g)
           /\ next_page_id' = next_page_id + 1
           /\ next_pt_id' = next_pt_id + n
           /\ last' = Request("add_page", next_page_id, TRUE, <<>>, <<>>)
  /\ ops' = ops + 1
  /\ UNCHANGED <<files, sitemap>>
  /\ UNCHANGED <<page_template_defs, plan, renderVars, tokenVars>>

\* save_template_parameters(db, page_template_id, parameters).
save_template_parameters(params, ptid, parameters) ==
  SelectSeq(params, LAMBDA r : r.page_template_id # ptid)
    \o [k \in 1..Len(parameters) |->
          [page_template_id |-> ptid, parameter_name |-> parameters[k][1],
           parameter_value |-> parameters[k][2]]]

\* An advanced-mode save that leaves the stored override of an instance
\* using the default where it is.
UpdatePageTemplate_KeepOverride(row, mode, use_default, custom_content) ==
  IF mode = "simple"
  THEN IF Strip(custom_content) = <<>>
       THEN [row EXCEPT !.use_default = TRUE]
       ELSE [row EXCEPT !.custom_content = custom_content,
                        !.use_default = FALSE]
  ELSE IF use_default
       THEN [row EXCEPT !.use_default = TRUE]
       ELSE [row EXCEPT !.custom_content = custom_content,
                        !.use_default = FALSE]

\* Lines 804-823, the UPDATE of one instance.  In simple mode an empty
\* textarea sets use_default and writes no custom_content; in advanced mode
\* a checked 'use default' writes custom_content = NULL.
UpdatePageTemplate(row, mode, use_default, custom_content) ==
  IF mode = "simple"
  THEN IF Strip(custom_content) = <<>>
       THEN [row EXCEPT !.use_default = TRUE]
       ELSE [row EXCEPT !.custom_content = custom_content,
                        !.use_default = FALSE]
  ELSE IF use_default
       THEN [row EXCEPT !.custom_content = None, !.use_default = TRUE]
       ELSE [row EXCEPT !.custom_content = custom_content,
                        !.use_default = FALSE]

\* Lines 795-859, the loop over existing_templates.  The form holds
\* Override in the textarea of instance form.custom and nothing in the
\* others, form.use_default is the state of the 'use default' checkboxes,
\* each sort_order field holds the value it was rendered with and each
\* parameter field holds ParamValue.
RECURSIVE SaveTemplates(_, _, _, _, _)
SaveTemplates(existing_templates, rows, params, mode, form) ==
  IF existing_templates = <<>> THEN [rows |-> rows, params |-> params]
  ELSE
    LET row == Head(existing_templates)
        custom_content == IF form.custom = row.id THEN Override ELSE <<>>
        use_default == form.use_default
        updated == UpdatePageTemplate(row, mode, use_default, custom_content)
        default_content == page_template_defs[row.template_id].content
        content_to_check ==
          IF mode = "simple"
          THEN IF updated.use_default THEN default_content
               ELSE OrEmpty(updated.custom_content)
          ELSE IF use_default THEN default_content ELSE custom_content
        \* has_parameters(content_to_check) is "names is not empty".
        Saved(names) ==
          IF Truthy(content_to_check) /\ names # <<>>
          THEN save_template_parameters(
                 params, row.id,
                 [k \in 1..Len(names) |-> <<names[k], ParamValue>>])
          ELSE params
    IN  SaveTemplates(Tail(existing_templates), (rows \ {row}) \cup {updated},
                      Saved(extract_parameters_from_content(content_to_check)),
                      mode, form)

\* edit_page(page_id), action 'save', lines 716-873.  A request without a
\* title or a slug, or with the slug of another page, is redirected with
\* nothing changed.  For a page in simple mode the 'use default' checkboxes
\* are not read.
EditPageSave ==
  /\ ops < MaxOps
  /\ \E p \in pages :
     \E use_default \in (IF p.mode = "simple" THEN {FALSE} ELSE BOOLEAN),
        custom \in {0} \cup {r.id : r \in RowsOf(page_templates, p.id)},
        existing_templates \in Orders(RowsOf(page_templates, p.id)) :
     \E s \in {SaveTemplates(existing_templates, page_templates,
                              page_template_parameters, p.mode,
                              [custom |-> custom, use_default |-> use_default])} :
           /\ Computed(s)
           /\ page_templates' = s.rows
           /\ page_template_parameters' = s.params
           /\ \E page_title \in Titles, page_slug \in Slugs \cup {p.slug},
                 is_blog_container \in BOOLEAN :
                /\ ~SlugInUse(pages, page_slug, p.id)
                /\ pages' = (pages \ {p}) \cup
                     {[p EXCEPT !.title = page_title, !.slug = page_slug,
                                !.is_blog_container = is_blog_container,
                                !.excerpt = <<>>]}
           /\ last' = Request("edit_page_save", p.id, TRUE, <<>>, <<>>)
  /\ ops' = ops + 1
  /\ UNCHANGED <<next_page_id, next_pt_id, files, sitemap>>
  /\ UNCHANGED <<page_template_defs, plan, renderVars, tokenVars>>

\* edit_page(page_id), action 'toggle_mode', lines 666-673.
EditPageToggleMode ==
  /\ ops < MaxOps
  /\ \E p \in pages :
       /\ pages' = (pages \ {p}) \cup
            {[p EXCEPT !.mode = IF p.mode = "simple" THEN "advanced" ELSE "simple"]}
       /\ last' = Request("edit_page_toggle_mode", p.id, TRUE, <<>>, <<>>)
  /\ ops' = ops + 1
  /\ UNCHANGED <<page_templates, page_template_parameters, next_page_id,
                 next_pt_id, files, sitemap>>
  /\ UNCHANGED <<page_template_defs, plan, renderVars, tokenVars>>

\* edit_page(page_id), action 'add_template', lines 890-930.
EditPageAddTemplate ==
  /\ ops < MaxOps
  /\ next_pt_id <= MaxBlocks
  /\ \E p \in pages, template_id \in DOMAIN page_template_defs :
       LET orders == {r.sort_order : r \in RowsOf(page_templates, p.id)}
           next_order == (IF orders = {} THEN 0 ELSE Max(orders)) + 1
       IN  /\ page_templates' = page_templates \cup
                {[id |-> next_pt_id, page_id |-> p.id,
                  template_id |-> template_id, use_default |-> TRUE,
                  custom_content |-> None, sort_order |-> next_order]}
           /\ page_template_parameters' =
                page_template_parameters
                  \o DefaultParameterRows(next_pt_id, template_id)
           /\ last' = Request("edit_page_add_template", p.id, TRUE, <<>>, <<>>)
  /\ next_pt_id' = next_pt_id + 1
  /\ ops' = ops + 1
  /\ UNCHANGED <<pages, next_page_id, files, sitemap>>
  /\ UNCHANGED <<page_template_defs, plan, renderVars, tokenVars>>

\* edit_page(page_id), GET, lines 944-975, for a page without block
\* instances: every block definition with is_default = 1 is attached in
\* the order of the definitions, each with use_default = 1; no row of
\* page_template_parameters is written.
EditPageOpen ==
  /\ ops < MaxOps
  /\ \E p \in pages :
       LET default_ids == {t \in DOMAIN page_template_defs :
                             page_template_defs[t].is_default}
           Place(t) == Cardinality({u \in default_ids : u <= t})
       IN  /\ RowsOf(page_templates, p.id) = {}
           /\ default_ids # {}
           /\ next_pt_id + Cardinality(default_ids) - 1 <= MaxBlocks
           /\ page_templates' = page_templates \cup
                {[id |-> next_pt_id + Place(t) - 1, page_id |-> p.id,
                  template_id |-> t, use_default |-> TRUE,
                  custom_content |-> None, sort_order |-> Place(t)] :
                   t \in default_ids}
           /\ next_pt_id' = next_pt_id + Cardinality(default_ids)
           /\ last' = Request("edit_page_open", p.id, TRUE, <<>>, <<>>)
  /\ ops' = ops + 1
  /\ UNCHANGED <<pages, page_template_parameters, next_page_id, files,
                 sitemap>>
  /\ UNCHANGED <<page_template_defs, plan, renderVars, tokenVars>>

\* edit_page(page_id), action 'remove_template', lines 932-941: the row of
\* page_templates goes, its parameter rows stay.
EditPageRemoveTemplate ==
  /\ ops < MaxOps
  /\ \E p \in pages, r \in page_templates :
       /\ r.page_id = p.id
       /\ page_templates' = page_templates \ {r}
       /\ last' = Request("edit_page_remove_template", p.id, TRUE, <<>>, <<>>)
  /\ ops' = ops + 1
  /\ UNCHANGED <<pages, page_template_parameters, next_page_id, next_pt_id,
                 files, sitemap>>
  /\ UNCHANGED <<page_template_defs, plan, renderVars, tokenVars>>


IdsOf(order) == [i \in 1..Len(order) |-> order[i].id]

\* The call generate_page_html(page_id) at lines 877 and 1197 stands in no
\* try block: an exception raised in it ends the request.
Propagates_Swallowed(result) == FALSE

Propagates(result) == result = "raised"

\* Line 1202: isinstance(result, str).
PublishSucceeded(result) == result = "filename"

\* Lines 882-886 and 1222-1226: generate_sitemap() in a try block; when the
\* write fails sitemap.xml is as it was.
SitemapAfter(ps, written) == IF written THEN generate_sitemap(ps) ELSE sitemap

\* A request that generated pages in a loop: again holds the ids the loop
\* called generate_page_html for and what each call ended in.
RequestWith(op, pid, ok, order, out, again) ==
  [op |-> op, page_id |-> pid, ok |-> ok, order |-> order, out |-> out,
   again |-> again]

\* edit_page(page_id), action 'publish', lines 875-888.
EditPagePublish ==
  /\ ops < MaxOps
  /\ \E p \in pages :
     \E order \in {FetchPageTemplates(page_templates, p.id, plan)} :
     \E html \in {HtmlContent(page_template_defs, settings, pages,
                             page_template_parameters, p.id, order)} :
     \E outcome \in WriteOutcomes :
     \E result \in {generate_page_html(pages, files, p.id, html, outcome)} :
       LET published == (pages \ {p}) \cup {[p EXCEPT !.published = TRUE]}
       IN  /\ files' = result.fs
           /\ last' = RequestWith("edit_page_publish", p.id,
                                  result.result = "filename", IdsOf(order),
                                  result.out,
                                  [ids |-> <<>>, results |-> <<>>])
           /\ IF Propagates(result.result)
              THEN UNCHANGED <<pages, sitemap>>
              ELSE /\ pages' = published
                   /\ \E sitemap_written \in BOOLEAN :
                        sitemap' = SitemapAfter(published, sitemap_written)
  /\ ops' = ops + 1
  /\ UNCHANGED <<page_templates, page_template_parameters, next_page_id,
                 next_pt_id>>
  /\ UNCHANGED <<page_template_defs, plan, renderVars, tokenVars>>

\* The ids of a set in rising order: the rows of a query on pages without
\* ORDER BY come in the order of the table.
RECURSIVE Ascending(_)
Ascending(ids) ==
  IF ids = {} THEN <<>>
  ELSE <<Min(ids)>> \o Ascending(ids \ {Min(ids)})

\* The loop, alternative: the first exception ends it.
RECURSIVE RepublishLoop_StopAtError(_, _, _, _, _)
RepublishLoop_StopAtError(ids, ps, fs, html, outcomes) ==
  LET After(r) ==
        LET Joined(rest) ==
              [fs |-> rest.fs, ids |-> <<Head(ids)>> \o rest.ids,
               results |-> <<r.result>> \o rest.results]
        IN  IF r.result = "raised"
            THEN [fs |-> r.fs, ids |-> <<Head(ids)>>, results |-> <<"raised">>]
            ELSE Joined(RepublishLoop_StopAtError(Tail(ids), ps, r.fs, html,
                                                  outcomes))
  IN  IF ids = <<>> THEN [fs |-> fs, ids |-> <<>>, results |-> <<>>]
      ELSE After(generate_page_html(ps, fs, Head(ids), html[Head(ids)],
                                    outcomes[Head(ids)]))

\* "for row in rows: try: generate_page_html(row['id']) except Exception:
\* ..." (pages.py 1214-1218 and 1261-1267, settings.py 48-53, templates_.py
\* 853-860): the pages of ids are generated one after the other, html[id]
\* being what a page composes to and outcomes[id] the outcome of its write;
\* an exception ends the iteration and not the loop.  fs are the files
\* afterwards, ids the pages generate_page_html was called for, results
\* what each call ended in.
RECURSIVE RepublishLoop(_, _, _, _, _)
RepublishLoop(ids, ps, fs, html, outcomes) ==
  LET After(r) ==
        LET Joined(rest) ==
              [fs |-> rest.fs, ids |-> <<Head(ids)>> \o rest.ids,
               results |-> <<r.result>> \o rest.results]
        IN  Joined(RepublishLoop(Tail(ids), ps, r.fs, html, outcomes))
  IN  IF ids = <<>> THEN [fs |-> fs, ids |-> <<>>, results |-> <<>>]
      ELSE After(generate_page_html(ps, fs, Head(ids), html[Head(ids)],
                                    outcomes[Head(ids)]))

\* publish_page(page_id), lines 1195-1237.  When the page is a blog post
\* every published blog container is generated again (lines 1211-1218).
PublishPage ==
  /\ ops < MaxOps
  /\ \E page_id \in {p.id : p \in pages} \cup {next_page_id} :
     \E order \in {FetchPageTemplates(page_templates, page_id, plan)} :
     \E html \in {HtmlContent(page_template_defs, settings, pages,
                             page_template_parameters, page_id, order)} :
     \E outcome \in WriteOutcomes :
     \E result \in {generate_page_html(pages, files, page_id, html, outcome)} :
       LET published == {IF p.id = page_id THEN [p EXCEPT !.published = TRUE]
                         ELSE p : p \in pages}
           containers ==
             IF \E p \in published : p.id = page_id /\ p.type = "blog"
             THEN {p.id : p \in {q \in published :
                                   q.is_blog_container /\ q.published}}
             ELSE {}
           Done(again) ==
             RequestWith("publish_page", page_id, result.result = "filename",
                         IdsOf(order), result.out, again)
       IN  IF Propagates(result.result) \/ ~PublishSucceeded(result.result)
           THEN /\ files' = result.fs
                /\ last' = Done([ids |-> <<>>, results |-> <<>>])
                /\ UNCHANGED <<pages, sitemap>>
           ELSE /\ pages' = published
                /\ \E outcomes \in [containers -> WriteOutcomes] :
                   \E loop \in
                     {RepublishLoop(
                        Ascending(containers), published, result.fs,
                        [c \in containers |->
                           HtmlContent(page_template_defs, settings, published,
                                       page_template_parameters, c,
                                       FetchPageTemplates(page_templates, c,
                                                          plan))],
                        outcomes)} :
                     /\ files' = loop.fs
                     /\ last' = Done([ids |-> loop.ids,
                                      results |-> loop.results])
                /\ \E sitemap_written \in BOOLEAN :
                     sitemap' = SitemapAfter(published, sitemap_written)
  /\ ops' = ops + 1
  /\ UNCHANGED <<page_templates, page_template_parameters, next_page_id,
                 next_pt_id>>
  /\ UNCHANGED <<page_template_defs, plan, renderVars, tokenVars>>

\* A preview whose string carries a stamp taken from the files on disk.
generate_page_html_preview_Stamped(fs, html) ==
  [result |-> IF html.result = "composed" THEN "html" ELSE html.result,
   fs |-> fs,
   out |-> html.out \o <<ToString(Cardinality(DOMAIN fs))>>]

\* generate_page_html(page_id, preview=True), lines 365-367: html is
\* HtmlContent for the page; the string is returned and no file is opened.
\* result is "html", "not_found" or "raised".
generate_page_html_preview(fs, html) ==
  [result |-> IF html.result = "composed" THEN "html" ELSE html.result,
   fs |-> fs, out |-> html.out]

\* The csrf tokens of the sessions that ask for previews.
Tokens == {"s1", "s2"}

\* Lines 1169-1172: the preview file of a page for a session.
PreviewPath(page_id, token) ==
  <<"pub", "/", "preview", "/", "preview_", ToString(page_id), "_", token,
    ".html">>

\* Lines 1177-1178: paths under /img/ are made relative.
PreviewRewrite(html) ==
  Replace(Replace(html, <<"src=\"/img/">>, <<"src=\"./img/">>),
          <<"href=\"/img/">>, <<"href=\"./img/">>)

\* cleanup_old_previews(page_id, current_filename), lines 17-33: the other
\* preview files of the page are removed, each in a try block; removed is
\* the set of files whose removal succeeds.
cleanup_old_previews(fs, page_id, token, removed) ==
  [x \in DOMAIN fs \ {PreviewPath(page_id, t) : t \in removed \ {token}} |-> fs[x]]

\* preview_page(page_id), lines 1155-1191.  A page that is not found is
\* answered with a redirect; makedirs raising ends the request and a
\* failing open or write is caught, both before the clean-up.
PreviewPage ==
  /\ ops < MaxOps
  /\ \E page_id \in {p.id : p \in pages} \cup {next_page_id} :
     \E order \in {FetchPageTemplates(page_templates, page_id, plan)} :
     \E html \in {HtmlContent(page_template_defs, settings, pages,
                             page_template_parameters, page_id, order)} :
     \E result \in {generate_page_html_preview(files, html)} :
     \E token \in Tokens, outcome \in WriteOutcomes, removed \in SUBSET Tokens :
       /\ last' = Request("preview_page", page_id, result.result = "html",
                          IdsOf(order), result.out)
       /\ IF result.result # "html" THEN files' = result.fs
          ELSE IF outcome = "written"
          THEN files' = cleanup_old_previews(
                          Put(result.fs, PreviewPath(page_id, token),
                              PreviewRewrite(result.out)),
                          page_id, token, removed)
          ELSE IF outcome = "write_failed"
          THEN files' = Put(result.fs, PreviewPath(page_id, token), <<>>)
          ELSE files' = result.fs
  /\ ops' = ops + 1
  /\ UNCHANGED <<pages, page_templates, page_template_parameters, next_page_id,
                 next_pt_id, sitemap>>
  /\ UNCHANGED <<page_template_defs, plan, renderVars, tokenVars>>

\* The files an import can be given, each a list of one page.
ImportFiles ==
  {[title |-> <<"I">>, slug |-> <<"a">>, published |-> TRUE,
    mode |-> "simple", type |-> "page",
    templates |->
      <<[template_id |-> 2, custom_content |-> <<"stored">>,
         use_default |-> TRUE, sort_order |-> 0,
         parameters |-> <<<<<<"name">>, <<"V">>>>>>],
        [template_id |-> 1, custom_content |-> Override,
         use_default |-> FALSE, sort_order |-> 0, parameters |-> <<>>]>>],
   [title |-> <<"I">>, slug |-> <<"b">>, published |-> FALSE,
    mode |-> "advanced", type |-> "blog",
    templates |->
      <<[template_id |-> 3, custom_content |-> <<>>, use_default |-> TRUE,
         sort_order |-> 1, parameters |-> <<>>]>>]}

\* import_pages(import_data, overwrite_existing, cursor), lines 396-500,
\* for a list of one page.
ImportPages ==
  /\ ops < MaxOps
  /\ \E page_data \in ImportFiles, overwrite_existing \in BOOLEAN :
       LET existing == {p \in pages : p.slug = page_data.slug}
           old == {r \in page_templates : \E p \in existing : r.page_id = p.id}
           n == Len(page_data.templates)
           inserted ==
             {[id |-> next_pt_id + k - 1, page_id |-> next_page_id,
               template_id |-> page_data.templates[k].template_id,
               use_default |-> page_data.templates[k].use_default,
               custom_content |-> page_data.templates[k].custom_content,
               sort_order |-> page_data.templates[k].sort_order] : k \in 1..n}
           parameters ==
             Flatten([k \in 1..n |->
               [j \in 1..Len(page_data.templates[k].parameters) |->
                  [page_template_id |-> next_pt_id + k - 1,
                   parameter_name |-> page_data.templates[k].parameters[j][1],
                   parameter_value |-> page_data.templates[k].parameters[j][2]]]])
       IN  IF existing # {} /\ ~overwrite_existing
           THEN /\ last' = Request("import_pages", 0, FALSE, <<>>, <<>>)
                /\ UNCHANGED <<pages, page_templates, page_template_parameters,
                               next_page_id, next_pt_id>>
           ELSE /\ next_page_id <= MaxPages
                /\ next_pt_id + n - 1 <= MaxBlocks
                /\ pages' = (pages \ existing) \cup
                     {NewPage(next_page_id, page_data.title, page_data.slug,
                              page_data.type, page_data.published,
                              page_data.mode)}
                /\ page_templates' = (page_templates \ old) \cup inserted
                /\ page_template_parameters' =
                     SelectSeq(page_template_parameters,
                               LAMBDA r : \A x \in old : r.page_template_id # x.id)
                       \o parameters
                /\ next_page_id' = next_page_id + 1
                /\ next_pt_id' = next_pt_id + n
                /\ last' = Request("import_pages", next_page_id, TRUE, <<>>, <<>>)
  /\ ops' = ops + 1
  /\ UNCHANGED <<files, sitemap>>
  /\ UNCHANGED <<page_template_defs, plan, renderVars, tokenVars>>

\* Lines 1095-1104: the first of slug-copy, slug-copy-1, slug-copy-2, ...
\* that no page has.
RECURSIVE CopySlug(_, _, _)
CopySlug(ps, slug, counter) ==
  LET new_slug == IF counter = 0 THEN slug \o <<"-copy">>
                  ELSE slug \o <<"-copy-", ToString(counter)>>
  IN  IF \E p \in ps : p.slug = new_slug
      THEN CopySlug(ps, slug, counter + 1) ELSE new_slug

\* Lines 1124-1147: the parameter rows of the copies, instance by instance.
RECURSIVE CopiedParameters(_, _, _)
CopiedParameters(order, params, first) ==
  IF order = <<>> THEN <<>>
  ELSE LET rows == SelectSeq(params,
                             LAMBDA r : r.page_template_id = Head(order).id)
       IN  [k \in 1..Len(rows) |-> [rows[k] EXCEPT !.page_template_id = first]]
             \o CopiedParameters(Tail(order), params, first + 1)

\* duplicate_page(page_id), lines 1081-1151.  The INSERT names no type:
\* the copy has the column's default, a page.
DuplicatePage ==
  /\ ops < MaxOps
  /\ next_page_id <= MaxPages
  /\ \E original_page \in pages :
     \E original_templates \in Orders(RowsOf(page_templates, original_page.id)) :
       LET n == Len(original_templates)
       IN  /\ next_pt_id + n - 1 <= MaxBlocks
           /\ pages' = pages \cup
                {NewPage(next_page_id, original_page.title \o <<" (Copy)">>,
                         CopySlug(pages, original_page.slug, 0), "page", FALSE,
                         original_page.mode)}
           /\ page_templates' = page_templates \cup
                {[original_templates[k] EXCEPT !.id = next_pt_id + k - 1,
                                               !.page_id = next_page_id] :
                   k \in 1..n}
           /\ page_template_parameters' =
                page_template_parameters
                  \o CopiedParameters(original_templates,
                                      page_template_parameters, next_pt_id)
           /\ next_pt_id' = next_pt_id + n
           /\ last' = Request("duplicate_page", next_page_id, TRUE, <<>>, <<>>)
  /\ next_page_id' = next_page_id + 1
  /\ ops' = ops + 1
  /\ UNCHANGED <<files, sitemap>>
  /\ UNCHANGED <<page_template_defs, plan, renderVars, tokenVars>>

\* delete_page(page_id), lines 1031-1055: the row of pages goes; the rows
\* of page_templates and the file stay.
DeletePage ==
  /\ ops < MaxOps
  /\ \E p \in pages :
       /\ pages' = pages \ {p}
       /\ last' = Request("delete_page", p.id, TRUE, <<>>, <<>>)
  /\ ops' = ops + 1
  /\ UNCHANGED <<page_templates, page_template_parameters, next_page_id,
                 next_pt_id, files, sitemap>>
  /\ UNCHANGED <<page_template_defs, plan, renderVars, tokenVars>>

\* delete_all_pages(), lines 1057-1077: DELETE FROM pages on a connection
\* get_db opened without PRAGMA foreign_keys (db.py lines 27-33), on which
\* SQLite enforces no ON DELETE CASCADE: the rows of pages go, the rows of
\* page_templates and page_template_parameters stay.
DeleteAllPages ==
  /\ ops < MaxOps
  /\ pages # {}
  /\ pages' = {}
  /\ last' = Request("delete_all_pages", 0, TRUE, <<>>, <<>>)
  /\ ops' = ops + 1
  /\ UNCHANGED <<page_templates, page_template_parameters, next_page_id,
                 next_pt_id, files, sitemap>>
  /\ UNCHANGED <<page_template_defs, plan, renderVars, tokenVars>>

Next ==
  \/ AddPage
  \/ EditPageSave
  \/ EditPageToggleMode
  \/ EditPageAddTemplate
  \/ EditPageOpen
  \/ EditPageRemoveTemplate
  \/ EditPagePublish
  \/ PublishPage
  \/ PreviewPage
  \/ ImportPages
  \/ DuplicatePage
  \/ DeletePage
  \/ DeleteAllPages

Spec == Init /\ [][Next]_vars

(***************************************************************************)
(* A site with content, and the requests that generate its pages again:   *)
(* pages.py, settings.py, templates_.py                                    *)
(***************************************************************************)

\* Bound: the requests handled on the site with content.
SiteOps == 2

\* A block that reads the settings and lists the blog posts.
ListingBlock ==
  Tok(<<"config", ":", "base_url">>) \o <<"|">>
    \o Tok(<<"page", ":", "featured", ":", "png">>) \o <<"|">> \o BlogLatest

\* An item template other than ItemTemplate.
OtherItemTemplate == <<"<p>", "{", "slug", "}", "</p>">>

\* The settings rows of the site: none of the three keys, as init_db
\* leaves the table, or all three.
SiteSettings ==
  { [base_url |-> None, blog_latest_template |-> None,
     blog_articles_per_page |-> None],
    [base_url |-> <<"https://x.test", "/">>,
     blog_latest_template |-> ItemTemplate,
     blog_articles_per_page |-> <<"1">>] }

\* What the settings form submits for a key.
SettingValues ==
  [base_url |-> <<"https://y.test">>,
   blog_latest_template |-> OtherItemTemplate,
   blog_articles_per_page |-> <<"2">>]

\* The pages of the site: a published blog container with a featured
\* image, a blog post that is not published, a published page.
SitePage(id, slug, type, published, container, featured_png) ==
  [id |-> id, title |-> <<"T">>, slug |-> slug, type |-> type,
   published |-> published, mode |-> "advanced",
   is_blog_container |-> container, excerpt |-> None,
   featured_png |-> featured_png]

SitePages ==
  { SitePage(1, <<"a">>, "page", TRUE, TRUE, <<"/img/a.png">>),
    SitePage(2, <<"b">>, "blog", FALSE, FALSE, None),
    SitePage(3, <<"d">>, "page", TRUE, FALSE, None) }

\* Their block instances: the container has the greeting and, as the
\* override of the heading, the listing block; the post has the blocks of
\* the blog group; the page has the greeting.
SiteRow(id, pid, tid, use_default, custom_content, sort_order) ==
  [id |-> id, page_id |-> pid, template_id |-> tid,
   use_default |-> use_default, custom_content |-> custom_content,
   sort_order |-> sort_order]

SiteRows ==
  { SiteRow(1, 1, 2, TRUE, None, 1),
    SiteRow(2, 1, 1, FALSE, ListingBlock, 2),
    SiteRow(3, 2, 3, TRUE, None, 1),
    SiteRow(4, 2, 2, TRUE, None, 2),
    SiteRow(5, 3, 2, TRUE, None, 1) }

\* The pages composed with the settings rows of the store the request
\* found, whatever rows it is given.
RenderedPages_SettingsKept(defs, st, ps, rows, params, join) ==
  [pid \in {p.id : p \in ps} |->
     HtmlContent(defs, settings, ps, params, pid,
                 FetchPageTemplates(rows, pid, join))]

\* What generate_page_html composes for each page of a store, lines
\* 18-363.
RenderedPages(defs, st, ps, rows, params, join) ==
  [pid \in {p.id : p \in ps} |->
     HtmlContent(defs, st, ps, params, pid,
                 FetchPageTemplates(rows, pid, join))]

\* The same for the store as it is.
Rendered ==
  RenderedPages(page_template_defs, settings, pages, page_templates,
                page_template_parameters, plan)

\* The site after its published pages were generated.
SiteInit ==
  /\ RenderIdle
  /\ settings \in SiteSettings
  /\ articles = {}
  /\ resolved = NoResult
  /\ dom = NoDom
  /\ page_template_defs = SiteBlocks
  /\ pages = SitePages
  /\ page_templates = SiteRows
  /\ page_template_parameters =
       DefaultParameterRows(1, 2) \o DefaultParameterRows(4, 2)
         \o DefaultParameterRows(5, 2)
  /\ next_page_id = 4
  /\ next_pt_id = 6
  /\ plan \in JoinOrders
  /\ files = [x \in {OutputPath(p) : p \in {q \in pages : q.published}} |->
                Rendered[(CHOOSE p \in pages : OutputPath(p) = x).id].out]
  /\ sitemap = generate_sitemap(pages)
  /\ ops = MaxOps - SiteOps
  /\ last = NoRequest

\* The outcomes of the writes of one loop; at most one write of a request
\* fails.
LoopOutcomes(ids) ==
  {o \in [ids -> WriteOutcomes] :
     Cardinality({i \in ids : o[i] # "written"}) <= 1}

\* Lines 1261-1267: "republished_count += 1" is reached by a call that
\* returned, "errors.append(...)" by one that raised.
RepublishedCount(results) ==
  Cardinality({i \in DOMAIN results : results[i] # "raised"})

Errors(ids, results) ==
  LET raised == SelectSeq([i \in DOMAIN ids |-> i],
                          LAMBDA i : results[i] = "raised")
  IN  [k \in DOMAIN raised |-> ids[raised[k]]]

\* republish_all_pages(), lines 1241-1282: the published pages, of one type
\* when the request names a type, are generated each in a try block, then
\* the sitemap.  Without a published page nothing is done.
RepublishAllPages ==
  /\ ops < MaxOps
  /\ \E page_type \in {"", "page", "blog"} :
     \E published_pages \in
       {{p.id : p \in {q \in pages : /\ q.published
                                     /\ page_type \in {"", q.type}}}} :
     \E outcomes \in LoopOutcomes(published_pages) :
     \E loop \in {RepublishLoop(Ascending(published_pages), pages, files,
                                Rendered, outcomes)} :
       /\ published_pages # {}
       /\ files' = loop.fs
       /\ last' = RequestWith("republish_all_pages", 0, TRUE, <<>>,
                              <<page_type>>,
                              [ids |-> loop.ids, results |-> loop.results,
                               republished_count |->
                                 RepublishedCount(loop.results),
                               errors |-> Errors(loop.ids, loop.results)])
  /\ \E sitemap_written \in BOOLEAN :
       sitemap' = SitemapAfter(pages, sitemap_written)
  /\ ops' = ops + 1
  /\ UNCHANGED <<pages, page_templates, page_template_parameters,
                 next_page_id, next_pt_id>>
  /\ UNCHANGED <<page_template_defs, plan, renderVars, tokenVars>>

\* settings(), POST, lines 20-57: the UPDATE changes the row of a submitted
\* key when the table has one, then every published page is generated, each
\* in a try block.  The form submits the other keys as they are stored.
UpdateSettings ==
  /\ ops < MaxOps
  /\ \E key \in DOMAIN SettingValues :
     \E updated \in {IF settings[key] = None THEN settings
                     ELSE [settings EXCEPT ![key] = SettingValues[key]]} :
     \E to_publish \in {{p.id : p \in {q \in pages : q.published}}} :
     \E outcomes \in LoopOutcomes(to_publish) :
     \E loop \in {RepublishLoop(
                    Ascending(to_publish), pages, files,
                    RenderedPages(page_template_defs, updated, pages,
                                  page_templates, page_template_parameters,
                                  plan),
                    outcomes)} :
       /\ settings' = updated
       /\ files' = loop.fs
       /\ last' = RequestWith("settings", 0, TRUE, <<>>, <<key>>,
                              [ids |-> loop.ids, results |-> loop.results])
  /\ ops' = ops + 1
  /\ UNCHANGED <<pages, page_templates, page_template_parameters,
                 page_template_defs, plan, next_page_id, next_pt_id, sitemap>>
  /\ UNCHANGED <<articles, resolved, dom>>
  /\ UNCHANGED renderVars

\* What the block form submits as content: the stored text or another one.
EditedContent == <<"Edited">>

\* edit_template(template_id), POST, lines 780-867: the UPDATE of the
\* definition; when is_default is switched on an instance is inserted for
\* every page, when it is switched off the instances of the definition are
\* deleted; then the published pages that have an instance of the
\* definition are generated, each in a try block.
EditTemplate ==
  /\ ops < MaxOps
  /\ \E template_id \in DOMAIN page_template_defs, is_default \in BOOLEAN :
     \E new_content \in {page_template_defs[template_id].content, EditedContent} :
       LET template == page_template_defs[template_id]
           MaxOrder(pid) ==
             LET orders == {r.sort_order : r \in RowsOf(page_templates, pid)}
             IN  IF orders = {} THEN 0 ELSE Max(orders)
           Place(pid) == Cardinality({q \in pages : q.id <= pid})
           added ==
             {[id |-> next_pt_id + Place(q.id) - 1, page_id |-> q.id,
               template_id |-> template_id, use_default |-> TRUE,
               custom_content |-> None, sort_order |-> MaxOrder(q.id) + 1] :
                q \in pages}
           defs == [page_template_defs EXCEPT
                      ![template_id] = [template EXCEPT
                                          !.content = new_content,
                                          !.is_default = is_default]]
           rows == IF is_default /\ ~template.is_default
                   THEN page_templates \cup added
                   ELSE IF ~is_default /\ template.is_default
                        THEN {r \in page_templates :
                                r.template_id # template_id}
                        ELSE page_templates
       IN  /\ page_template_defs' = defs
           /\ page_templates' = rows
           /\ next_pt_id' = IF is_default /\ ~template.is_default
                            THEN next_pt_id + Cardinality(pages)
                            ELSE next_pt_id
           /\ \E affected_pages \in
                {{q.id : q \in {x \in pages :
                     /\ x.published
                     /\ \E r \in rows :
                          r.page_id = x.id /\ r.template_id = template_id}}} :
              \E outcomes \in LoopOutcomes(affected_pages) :
              \E loop \in {RepublishLoop(
                             Ascending(affected_pages), pages, files,
                             RenderedPages(defs, settings, pages, rows,
                                           page_template_parameters, plan),
                             outcomes)} :
                /\ files' = loop.fs
                /\ last' = RequestWith("edit_template", template_id, TRUE,
                                       <<>>, <<>>,
                                       [ids |-> loop.ids,
                                        results |-> loop.results])
  /\ ops' = ops + 1
  /\ UNCHANGED <<pages, page_template_parameters, plan, next_page_id,
                 sitemap>>
  /\ UNCHANGED <<renderVars, tokenVars>>

SiteNext ==
  \/ EditPagePublish
  \/ PublishPage
  \/ RepublishAllPages
  \/ UpdateSettings
  \/ EditTemplate

SiteSpec == SiteInit /\ [][SiteNext]_vars


(***************************************************************************)
(* Properties of the requests, checked under Spec                          *)
(***************************************************************************)

PublishRequests == {"publish_page", "edit_page_publish"}

\* C1, as claimed: in every state the requests can reach, each page with
\* published = 1 has an output file at the path of its current slug.
C1_PublishedHasFile ==
  \A p \in pages : p.published => OutputPath(p) \in DOMAIN files

\* A text built only from literal text, reserved tokens and conditional
\* markers: with those taken out no '{{' is left.
RECURSIVE WithoutReserved(_, _)
WithoutReserved(s, i) ==
  LET hits == {k \in i..Len(s) : ReservedEnd(s, k) # 0}
  IN  IF hits = {} THEN SubSeq(s, i, Len(s))
      ELSE SubSeq(s, i, Min(hits) - 1)
           \o WithoutReserved(s, ReservedEnd(s, Min(hits)))

ReservedOnly(s) == ~Contains(WithoutReserved(s, 1), <<"{", "{">>)

\* The content of an instance that edit_page save looks at.
Shown(r) ==
  IF r.use_default THEN page_template_defs[r.template_id].content
  ELSE OrEmpty(r.custom_content)

\* C6, as claimed: for the content of an instance that is built only from
\* literal text, reserved tokens and conditional regions, the extracted
\* parameter list is empty and edit_page save creates no parameter binding
\* for the instance.
C6_NoBindingForReserved ==
  [][last'.op = "edit_page_save"
     => \A r \in RowsOf(page_templates', last'.page_id) :
          ReservedOnly(Shown(r))
          => (/\ extract_parameters_from_content(Shown(r)) = <<>>
              /\ \A k \in 1..Len(page_template_parameters') :
                   (page_template_parameters'[k].page_template_id = r.id)
                   => (page_template_parameters'[k]
                         \in Range(page_template_parameters)))]_vars

\* The resolved content of a selected text: the text as it is when it
\* holds no '{{', else the text after the stages of the block pipeline.
Resolved(text, parameters, row, db) ==
  IF HasMarker(text)
  THEN replace_special_tokens(ParameterStage(text, parameters).out, row, db).out
  ELSE text

\* C8: the output a publish request composes for a page is the
\* concatenation, without a separator and in the order of sort_order, of
\* the resolved content of each block instance of the page, where the
\* content of an instance is the content of its block definition when
\* use_default is set and its custom_content otherwise.
C8_OutputIsConcatenation ==
  [][(last'.op \in PublishRequests /\ last'.ok)
     => \E p \in pages :
          /\ p.id = last'.page_id
          /\ LET rows == RowsOf(page_templates, p.id)
                 n == Len(last'.order)
                 at(i) == CHOOSE r \in rows : r.id = last'.order[i]
                 selected(r) ==
                   IF r.use_default THEN page_template_defs[r.template_id].content
                   ELSE r.custom_content
             IN  /\ n = Cardinality(rows)
                 /\ {last'.order[i] : i \in 1..n} = {r.id : r \in rows}
                 /\ \A i, j \in 1..n :
                      i < j => at(i).sort_order <= at(j).sort_order
                 /\ last'.out =
                      Flatten([i \in 1..n |->
                        Resolved(selected(at(i)),
                                 ParametersOf(page_template_parameters, at(i).id),
                                 PageRow(p), StoreDb(settings, pages))])]_vars

\* A page with an instance that uses its definition while an override is
\* stored and an instance that uses its override has been published: the
\* output holds the definition's text of the first, the override of the
\* second and nothing of the stored override.
C8_Witness ==
  /\ last.op \in PublishRequests
  /\ last.ok
  /\ \E r1, r2 \in RowsOf(page_templates, last.page_id) :
       /\ r1.use_default /\ r1.custom_content = <<"stored">>
       /\ ~r2.use_default /\ r2.custom_content = Override
  /\ Contains(last.out, <<"Hello ", "V">>)
  /\ Contains(last.out, Override)
  /\ ~Contains(last.out, <<"stored">>)

\* C10: the published flag of a page goes from 0 to 1 only in a publish
\* request for that page whose output file has been written; a publish
\* request for which generate_page_html finds no page or fails to write
\* sets the flag of no page.
C10_FlagOnlyAfterWrite ==
  [][(\A p \in pages, q \in pages' :
        (p.id = q.id /\ ~p.published /\ q.published)
        => (/\ last'.op \in PublishRequests
            /\ last'.page_id = p.id
            /\ last'.ok
            /\ OutputPath(p) \in DOMAIN files'))
     /\ ((last'.op \in PublishRequests /\ ~last'.ok)
         => (\A q \in pages' : q.published => q \in pages))]_vars

\* A publish request has composed the page and failed to write the file:
\* the page is not published.
C10_Witness ==
  /\ last.op \in PublishRequests
  /\ ~last.ok
  /\ last.out # <<>>
  /\ \E p \in pages : p.id = last.page_id /\ ~p.published

\* The path the design gives a page: blog/<slug>.html under the publish
\* root for a blog post, <slug>.html under it for any other page.
ClaimedPath(p) ==
  IF p.type = "blog" THEN <<"pub", "/", "blog", "/">> \o p.slug \o <<".html">>
  ELSE <<"pub", "/">> \o p.slug \o <<".html">>

\* The rows with the given ids, in that order.
RowsInOrder(rows, ids) ==
  [i \in 1..Len(ids) |-> CHOOSE r \in rows : r.id = ids[i]]

\* What generate_page_html(pid, preview=True) returns in the store ps, rows,
\* params when the query returns the rows in the order ids.
PreviewString(ps, rows, params, pid, ids) ==
  generate_page_html_preview(
    <<>>, HtmlContent(page_template_defs, settings, ps, params, pid,
                      RowsInOrder(RowsOf(rows, pid), ids))).out

\* publish_page generates a published blog container a second time when
\* the page it publishes is a blog post.
GeneratedTwice(p) ==
  last'.op = "publish_page" /\ p.type = "blog" /\ p.is_blog_container

\* C11: a successful generate_page_html(page_id) leaves at blog/<slug>.html
\* (blog) or <slug>.html (other types) under the publish root a file whose
\* content is the string generate_page_html(page_id, preview=True) returns
\* in the same state, whatever was at the path before; a preview request
\* changes no file outside the preview directory.
C11_FileEqualsPreview ==
  [][/\ (last'.op \in PublishRequests /\ last'.ok)
        => \E p \in pages :
             /\ p.id = last'.page_id
             /\ ClaimedPath(p) \in DOMAIN files'
             /\ last'.out = PreviewString(pages, page_templates,
                                          page_template_parameters, p.id,
                                          last'.order)
             /\ IF GeneratedTwice(p)
                THEN files'[ClaimedPath(p)] \in
                       {last'.out, <<>>} \cup
                       {PreviewString(pages', page_templates,
                                      page_template_parameters, p.id,
                                      last'.order)}
                ELSE files'[ClaimedPath(p)] = last'.out
     /\ last'.op = "preview_page"
        => /\ \A p \in pages : ClaimedPath(p) \in DOMAIN files'
                                 <=> ClaimedPath(p) \in DOMAIN files
           /\ \A x \in DOMAIN files \cap DOMAIN files' :
                (\E p \in pages : ClaimedPath(p) = x) => files'[x] = files[x]
           /\ last'.ok => last'.out = PreviewString(pages, page_templates,
                                                    page_template_parameters,
                                                    last'.page_id, last'.order)
    ]_vars

\* A blog post with an override has been published: its file under blog/
\* holds the override with its parameter substituted.
C11_Witness ==
  /\ last.op \in PublishRequests
  /\ last.ok
  /\ \E p \in pages :
       /\ p.id = last.page_id
       /\ p.type = "blog"
       /\ <<"pub", "/", "blog", "/">> \o p.slug \o <<".html">> \in DOMAIN files
       /\ files[<<"pub", "/", "blog", "/">> \o p.slug \o <<".html">>] = last.out
       /\ Contains(last.out, <<"O", "V">>)

RowAfter(r) == CHOOSE x \in page_templates' : x.id = r.id

\* The rows of the page a save has just been made for that the save left
\* using the default.
SavedWithDefault ==
  {r \in page_templates :
     /\ last'.op = "edit_page_save"
     /\ ops' = ops + 1
     /\ r.page_id = last'.page_id
     /\ RowAfter(r).use_default}

\* C14, as claimed: a save, in simple or advanced mode, that leaves an
\* instance using the default leaves its stored override unchanged.
C14_OverrideKept ==
  [][\A r \in SavedWithDefault :
       Truthy(r.custom_content) => RowAfter(r).custom_content = r.custom_content
    ]_vars

\* C14, amended: a save in simple mode with an empty content field leaves
\* the instance using the default with its stored override unchanged; a
\* save in advanced mode with 'use default' checked stores NULL as the
\* override, whatever was stored before.
C14_OverrideKeptInSimpleMode ==
  [][\A r \in SavedWithDefault :
       \E p \in pages :
         /\ p.id = r.page_id
         /\ p.mode = "simple" => RowAfter(r).custom_content = r.custom_content
         /\ p.mode = "advanced" => RowAfter(r).custom_content = None
    ]_vars

\* The imported page with an override on its second instance has been
\* switched to advanced mode and saved with 'use default' checked: the
\* override is gone.
C14_Witness ==
  /\ last.op = "edit_page_save"
  /\ \E p \in pages :
       /\ p.id = last.page_id
       /\ p.mode = "advanced"
       /\ \E r \in RowsOf(page_templates, p.id) :
            r.template_id = 1 /\ r.use_default /\ r.custom_content = None
       /\ \E r \in RowsOf(page_templates, p.id) : r.template_id = 2

(***************************************************************************)
(* Properties of token resolution, checked under TokenSpec                 *)
(***************************************************************************)

\* The date a post counts as published on: its published_date, and its
\* created_at when it has none.
EffectiveDate(r) ==
  IF Truthy(r.published_date) THEN r.published_date ELSE r.created_at

\* The slugs of the store that occur in a text, in the order they occur.
SlugsIn(out) ==
  SelectSeq(out, LAMBDA a : \E r \in articles : r.slug = <<a>>)

\* C15, as claimed: {{blog:latest}} lists exactly the pages of type blog
\* with published = 1, one item each, in descending order of effective
\* date, the effective date of a page without a published date being its
\* created_at.
C15_LatestByEffectiveDate ==
  (resolved.called /\ Contains(resolved.content, Tok(<<"blog", ":", "latest">>)))
    => /\ {resolved.posts[i].id : i \in 1..Len(resolved.posts)}
            = {a.id : a \in {x \in articles : x.type = "blog" /\ x.published}}
       /\ Len(resolved.posts)
            = Cardinality({x \in articles : x.type = "blog" /\ x.published})
       /\ \A i, j \in 1..Len(resolved.posts) :
            i < j => ~TextLess(EffectiveDate(resolved.posts[i]),
                               EffectiveDate(resolved.posts[j]))
       /\ settings.blog_latest_template = ItemTemplate
            => SlugsIn(resolved.out)
                 = [i \in 1..Len(resolved.posts) |-> resolved.posts[i].slug[1]]

\* The published blog posts of the store.
PublishedPosts == {x \in articles : x.type = "blog" /\ x.published}

\* The page size of the claim for the value s of the setting: 20 when the
\* row is absent or its value is no integer, else the value, at least 1.
ClaimedPageSize(s) ==
  IF s = None \/ ~ParseInt(s).ok THEN 20
  ELSE IF ParseInt(s).val < 1 THEN 1 ELSE ParseInt(s).val

\* ceil(n / p).
CeilDiv(n, p) == CHOOSE k \in 0..n : k * p >= n /\ (k - 1) * p < n

\* C16: for N >= 1 published blog posts the text {{blog:latest}} resolves
\* to embeds the page size max(1, s), 20 when the setting is absent or no
\* integer, and the page count ceil(N / P).
C16_PageSizeAndCount ==
  (/\ resolved.called
   /\ Contains(resolved.content, Tok(<<"blog", ":", "latest">>))
   /\ PublishedPosts # {})
    => /\ HasScript(resolved.out)
       /\ EmbeddedInt(resolved.out, "itemsPerPage=")
            = ClaimedPageSize(settings.blog_articles_per_page)
       /\ EmbeddedInt(resolved.out, "totalItems=") = Cardinality(PublishedPosts)
       /\ EmbeddedInt(resolved.out, "totalPages=")
            = CeilDiv(Cardinality(PublishedPosts),
                      ClaimedPageSize(settings.blog_articles_per_page))

\* Three published posts have been listed with a page size of 2: two
\* pages, the second one partly filled.
C16_Witness ==
  /\ resolved.called
  /\ Contains(resolved.content, Tok(<<"blog", ":", "latest">>))
  /\ Cardinality(PublishedPosts) = 3
  /\ settings.blog_articles_per_page = <<" ", "2", " ">>
  /\ EmbeddedInt(resolved.out, "itemsPerPage=") = 2
  /\ EmbeddedInt(resolved.out, "totalPages=") = 2

\* The item indexes of page pg: from (pg - 1) * P up to, not including,
\* min(pg * P, N).
ItemsOfPage(pg, P, N) ==
  {i \in 0..(N - 1) : (pg - 1) * P <= i /\ i < pg * P}

\* C17, as claimed: once the script of a listing of more than one page has
\* initialised, and after any clicks on Previous and Next, currentPage is
\* within 1..totalPages, exactly the items of that page are visible,
\* Previous is disabled iff currentPage = 1 and Next iff currentPage =
\* totalPages; for a listing of one page or none the controls are hidden.
C17_PaginationState ==
  (dom.loaded /\ HasScript(resolved.out))
    => IF EmbeddedInt(resolved.out, "totalPages=") > 1
       THEN /\ dom.currentPage \in 1..EmbeddedInt(resolved.out, "totalPages=")
            /\ dom.visible = ItemsOfPage(dom.currentPage,
                                         EmbeddedInt(resolved.out, "itemsPerPage="),
                                         EmbeddedInt(resolved.out, "totalItems="))
            /\ dom.prev_disabled <=> dom.currentPage = 1
            /\ dom.next_disabled
                 <=> dom.currentPage = EmbeddedInt(resolved.out, "totalPages=")
       ELSE dom.nav_hidden

\* The fragment starts with a {{blog:category:...}} token; its argument is
\* what stands between the last colon and the closing braces.
StartsWithCategoryToken(c) ==
  /\ StartsWithAt(c, 1, <<"{", "{", "blog", ":", "category", ":">>)
  /\ \E i \in 7..Len(c) : c[i] = "}"

TokenClose(c) == CHOOSE i \in 7..Len(c) : c[i] = "}" /\ \A k \in 7..(i - 1) : c[k] # "}"

CategoryArgument(c) == SubSeq(c, 7, TokenClose(c) - 1)

\* N, or [N], for a number N.
IsNumber(a) == a # <<>> /\ \A i \in 1..Len(a) : a[i] \in Digits

NumericArgument(a) ==
  \/ IsNumber(a)
  \/ Len(a) > 2 /\ a[1] = "[" /\ a[Len(a)] = "]" /\ IsNumber(SubSeq(a, 2, Len(a) - 1))

\* C18, as claimed: a {{blog:category:N}} or {{blog:category:[N]}} token
\* whose N is malformed or no number is replaced by the empty string: only
\* the text after it is left.
C18_MalformedCategoryEmpty ==
  (/\ resolved.called
   /\ StartsWithCategoryToken(resolved.content)
   /\ ~NumericArgument(CategoryArgument(resolved.content)))
    => resolved.out = SubSeq(resolved.content, TokenClose(resolved.content) + 2,
                             Len(resolved.content))

FeaturedFragment ==
  Tok(<<"page", ":", "featured", ":", "png">>) \o <<"|">>
    \o Tok(<<"page", ":", "featured", ":", "webp">>)

\* The base url of the claim: the setting, http://localhost:5000 without.
ClaimedBaseUrl ==
  IF settings.base_url = None THEN <<"http://localhost:5000">>
  ELSE settings.base_url

\* The url of a stored variant when the values starting with one of the
\* given prefixes count as absolute.
ClaimedMediaUrl(v, schemes) ==
  IF ~Truthy(v) THEN <<>>
  ELSE IF LowerAtom(Head(v)) \in schemes THEN v
  ELSE ClaimedBaseUrl \o v

\* C19, as claimed: {{page:featured:png}} and {{page:featured:webp}}
\* resolve to the empty string for an unset variant, to the stored value
\* for a value that starts with a scheme, and to base_url followed by the
\* stored path otherwise.
C19_AnySchemeIsAbsolute ==
  (resolved.called /\ resolved.content = FeaturedFragment)
    => resolved.out
         = ClaimedMediaUrl(resolved.page.featured_png,
                           {"http://", "https://", "ftp://"})
           \o <<"|">>
           \o ClaimedMediaUrl(resolved.page.featured_webp,
                              {"http://", "https://", "ftp://"})

\* C19, amended: the stored value is used unchanged only when it starts
\* with http:// or https://, in any letter case; a value that starts with
\* another scheme has base_url put ahead of it like a path.
C19_HttpIsAbsolute ==
  (resolved.called /\ resolved.content = FeaturedFragment)
    => resolved.out
         = ClaimedMediaUrl(resolved.page.featured_png, {"http://", "https://"})
           \o <<"|">>
           \o ClaimedMediaUrl(resolved.page.featured_webp,
                              {"http://", "https://"})

\* Without a base_url setting, a page with an upper-case HTTP:// value
\* and an ftp:// value has been resolved: the first is unchanged, the
\* second follows the default base url.
C19_Witness ==
  /\ resolved.called
  /\ resolved.content = FeaturedFragment
  /\ settings.base_url = None
  /\ resolved.out = <<"HTTP://", "cdn.test/f.png", "|",
                      "http://localhost:5000", "ftp://", "cdn.test/f.webp">>

\* The reserved tokens whose replacement holds the base url.
BaseUrlTokens ==
  { Tok(<<"page", ":", "featured", ":", "png">>),
    Tok(<<"page", ":", "featured", ":", "webp">>),
    Tok(<<"config", ":", "base_url">>),
    Tok(<<"blog", ":", "categories">>),
    Tok(<<"blog", ":", "latest">>) }

HasCategoryToken(c) ==
  \E i \in 1..Len(c), bracket \in BOOLEAN : CategoryMatch(c, i, bracket).end # 0

\* C20, as claimed: resolving a fragment queries the store for the data of
\* a reserved token only if the token occurs in the fragment; a fragment
\* with '{{' and none of the reserved tokens causes no query.
C20_QueriesOnlyForTokens ==
  resolved.called
    => \A k \in 1..Len(resolved.queries) :
         LET q == resolved.queries[k]
         IN  /\ q = "settings:base_url"
                  => \/ \E t \in BaseUrlTokens : Contains(resolved.content, t)
                     \/ HasCategoryToken(resolved.content)
             /\ q \in {"settings:blog_latest_template",
                       "settings:blog_articles_per_page", "pages:blog_latest"}
                  => Contains(resolved.content, Tok(<<"blog", ":", "latest">>))
             /\ q \in {"pages:container", "blog_categories"}
                  => Contains(resolved.content, Tok(<<"blog", ":", "categories">>))
             /\ q = "category_posts" => HasCategoryToken(resolved.content)

(***************************************************************************)
(* Properties of the store requests, continued                             *)
(***************************************************************************)

\* C24: no two pages have the same slug, whatever their types; an import
\* that meets the slug of an existing page and does not overwrite leaves
\* the pages table as it was, and one that overwrites replaces the page.
C24_SlugUnique ==
  [][/\ \A p, q \in pages' : p.id # q.id => p.slug # q.slug
     /\ (last'.op = "import_pages" /\ ~last'.ok /\ ops' = ops + 1)
          => pages' = pages
    ]_vars

\* A page has been duplicated and an import of a file with the slug of an
\* existing page, without overwrite, has been turned away: the page and
\* its copy are both there under different slugs.
C24_Witness ==
  /\ last.op = "import_pages"
  /\ ~last.ok
  /\ \E p, q \in pages :
       /\ p.id # q.id
       /\ q.slug = p.slug \o <<"-copy">>
       /\ p.slug \in {f.slug : f \in ImportFiles}

\* C25, as claimed: after delete_page, delete_all_pages or the removal of
\* an instance in the editor, no instance is left that references a
\* deleted page and no parameter row that references a deleted instance.
C25_NoOrphans ==
  last.op \in {"delete_page", "delete_all_pages", "edit_page_remove_template"}
    => /\ \A r \in page_templates : \E p \in pages : p.id = r.page_id
       /\ \A k \in 1..Len(page_template_parameters) :
            \E r \in page_templates :
              r.id = page_template_parameters[k].page_template_id


(***************************************************************************)
(* Properties of the conditional loop, checked under RenderLive            *)
(***************************************************************************)

\* The content the loop of lines 55-63 starts with: the selected text after
\* the parameter loop.
LoopEntry == ParameterStage(Selected, pt.parameters).out

\* The closing markers of a text.
EndIfCount(s) == Cardinality({i \in 1..Len(s) : EndIfEnd(s, i) # 0})

\* The iterations of the loop so far.
Iterations ==
  Cardinality({k \in 1..Len(stages) : stages[k] = "conditionals"})

\* C27, as claimed: the loop runs at most once per {{/if}} marker of the
\* content it is given.
C27_OncePerMarker ==
  pc \in {"conditionals", "tokens"} => Iterations <= EndIfCount(LoopEntry)

\* C27, amended: the loop terminates for every content; each iteration
\* strictly shortens the content, so the loop runs fewer times than the
\* content it is given has characters; and when the loop is left the
\* content holds no well-formed {{if K}}...{{/if}} span, the spans that
\* only became well-formed by a replacement included.
C27_LoopTerminates ==
  /\ [][ConditionalIteration => Len(content') < Len(content)]_vars
  /\ [](pc \in {"conditionals", "tokens"}
          => Len(content) + Iterations <= Len(LoopEntry))
  /\ [](pc = "tokens" => CondStarts(content) = {})
  /\ (pc = "conditionals" ~> pc # "conditionals")

\* The loop has resolved a region inside a region: the second span only
\* matched after the first replacement.
C27_Witness ==
  /\ pc = "tokens"
  /\ Selected = Build(NestedRegion)
  /\ pt.parameters = <<>>
  /\ Iterations = 2
  /\ content = <<"B", "C">>


(***************************************************************************)
(* Properties of the files written, checked under Spec                     *)
(***************************************************************************)

\* The components of a path: the runs of atoms between "/" atoms.
RECURSIVE Components(_)
Components(path) ==
  IF path = <<>> THEN <<>>
  ELSE LET cut == FirstOf(path, 1, {"/"})
       IN  <<SubSeq(path, 1, cut - 1)>>
           \o Components(SubSeq(path, cut + 1, Len(path)))

\* The directory depth below the first component after each further
\* component of a path, ".." leading one level up.
RECURSIVE Depths(_, _)
Depths(parts, depth) ==
  IF parts = <<>> THEN <<>>
  ELSE LET next == IF Head(parts) = <<"..">> THEN depth - 1 ELSE depth + 1
       IN  <<next>> \o Depths(Tail(parts), next)

\* The file named by a path lies inside the publish root: the path starts
\* with "pub/" and no prefix of it leads out of that directory.
InsidePublishRoot(path) ==
  /\ Len(path) >= 2
  /\ SubSeq(path, 1, 2) = <<"pub", "/">>
  /\ \E d \in {Depths(Tail(Components(path)), 0)} :
       \A k \in 1..Len(d) : d[k] >= 1 \/ (k < Len(d) /\ d[k] = 0)

\* C30: for every slug that add_page, the save of edit_page or import_pages
\* has accepted and stored, publishing writes only inside the publish root:
\* every file written lies in it, directly or under blog/.
C30_WritesInsideRoot == \A path \in DOMAIN files : InsidePublishRoot(path)


\* The block instance r carries a binding of the default value for every
\* key of the default-parameter map of its definition.
HasDefaultBindings(r, params) ==
  \A d \in Range(page_template_defs[r.template_id].default_parameters) :
    \E k \in 1..Len(params) :
      /\ params[k].page_template_id = r.id
      /\ params[k].parameter_name = d[1]
      /\ params[k].parameter_value = d[2]

\* C26: whenever a block instance is first attached to a page, by add_page
\* from a template group, by 'add_template' of edit_page or by the
\* automatic attachment of the default blocks when a page without blocks is
\* opened, a parameter binding is created for each key of the definition's
\* default-parameter map, with that default value.
C26_DefaultBindings ==
  [][last'.op \in {"add_page", "edit_page_add_template", "edit_page_open"}
       => \A r \in page_templates' \ page_templates :
            HasDefaultBindings(r, page_template_parameters')]_vars

(***************************************************************************)
(* C28: blog containers after a post is published                          *)
(***************************************************************************)

\* What every page of the store composes to once the request has ended.
RenderedAfter ==
  RenderedPages(page_template_defs', settings', pages', page_templates',
                page_template_parameters', plan')

\* The request generated page pid again: the loop called generate_page_html
\* for it, and where the call wrote the file, the file holds what the page
\* composes to in the store the request leaves.
GeneratedAgain(pid) ==
  \E i \in DOMAIN last'.again.ids :
    /\ last'.again.ids[i] = pid
    /\ last'.again.results[i] = "filename" =>
         \E p \in pages' :
           /\ p.id = pid
           /\ OutputPath(p) \in DOMAIN files'
           /\ files'[OutputPath(p)] = RenderedAfter[pid].out

\* The request turned the blog post pid from not published to published.
BecamePublished(pid) ==
  /\ last'.op \in {"publish_page", "edit_page_publish"}
  /\ last'.page_id = pid
  /\ \E p \in pages : p.id = pid /\ p.type = "blog" /\ ~p.published
  /\ \E p \in pages' : p.id = pid /\ p.published

\* C28: when publish_page or the 'publish' action of edit_page turns a blog
\* post into a published one, every published blog container is generated
\* again by the same request, from the store in which the post is published.
C28_ContainersGenerated ==
  [][\A pid \in {p.id : p \in pages} :
       BecamePublished(pid) =>
         \A c \in {q \in pages' : q.is_blog_container /\ q.published} :
           GeneratedAgain(c.id)]_vars

(***************************************************************************)
(* C29: the pages of a block definition after edit_template                *)
(***************************************************************************)

\* The published pages with an instance of definition tid in the store the
\* request found.
PagesShowing(tid) ==
  {p.id : p \in {q \in pages :
     /\ q.published
     /\ \E r \in page_templates : r.page_id = q.id /\ r.template_id = tid}}

\* C29: an edit_template request generates again every published page that
\* had an instance of the edited definition when the request arrived, also
\* when the request switches is_default off and the instances are deleted.
C29_AffectedGenerated ==
  [][last'.op = "edit_template" =>
       \A pid \in PagesShowing(last'.page_id) : GeneratedAgain(pid)]_vars

(***************************************************************************)
(* C22: republish_all_pages attempts every selected page                   *)
(***************************************************************************)

\* The pages the query of lines 1248-1252 selects for a type filter.
SelectedFor(page_type) ==
  {p.id : p \in {q \in pages : q.published /\ page_type \in {"", q.type}}}

\* C22: republish_all_pages calls generate_page_html once for every selected
\* page, whatever the calls before it ended in; a page whose call returned
\* is counted and has its file written, a page whose call raised is in the
\* errors, and the count and the errors add up to the selected pages.
C22_EveryPageAttempted ==
  [][last'.op = "republish_all_pages" =>
       LET selected == SelectedFor(last'.out[1])
           again == last'.again
       IN  /\ Len(again.ids) = Cardinality(selected)
           /\ {again.ids[i] : i \in DOMAIN again.ids} = selected
           /\ \A i \in DOMAIN again.ids :
                /\ again.results[i] \in {"filename", "raised"}
                /\ again.results[i] = "raised" <=>
                     \E k \in DOMAIN again.errors :
                       again.errors[k] = again.ids[i]
           /\ \A pid \in selected : GeneratedAgain(pid)
           /\ again.republished_count + Len(again.errors)
                = Cardinality(selected)]_vars

\* A request whose first page raised and whose second page was written.
C22_Witness ==
  /\ last.op = "republish_all_pages"
  /\ Len(last.again.ids) >= 2
  /\ last.again.results[1] = "raised"
  /\ last.again.results[2] = "filename"
  /\ last.again.republished_count = Len(last.again.ids) - 1

(***************************************************************************)
(* C21: every render reads the settings rows as they are stored            *)
(***************************************************************************)

\* What page pid composes to with the settings rows st, the other tables
\* being as the request leaves them.
ComposedWith(st, pid) ==
  HtmlContent(page_template_defs', st, pages', page_template_parameters', pid,
              FetchPageTemplates(page_templates', pid, plan')).out

\* C21: whatever requests came before, a page a request writes is composed
\* with the settings rows stored when generate_page_html runs: the rows the
\* request itself has written for those it generates after its UPDATE, the
\* rows it found for the page publish_page and edit_page generate first.
C21_SettingsReadAtRender ==
  [][/\ \A i \in DOMAIN last'.again.ids :
          last'.again.results[i] = "filename" =>
            \E p \in pages' :
              /\ p.id = last'.again.ids[i]
              /\ files'[OutputPath(p)] = ComposedWith(settings', p.id)
     /\ (last'.op \in {"publish_page", "edit_page_publish"} /\ last'.ok) =>
          last'.out =
            HtmlContent(page_template_defs, settings', pages,
                        page_template_parameters, last'.page_id,
                        FetchPageTemplates(page_templates, last'.page_id,
                                           plan)).out]_vars

\* The settings request changed base_url, and the file of the container,
\* written by it, shows the new value and not the one before.
C21_Witness ==
  /\ last.op = "settings"
  /\ last.out = <<"base_url">>
  /\ settings.base_url = SettingValues.base_url
  /\ last.again.results[1] = "filename"
  /\ \E i \in DOMAIN files[<<"pub", "/", "a", ".html">>] :
       files[<<"pub", "/", "a", ".html">>][i] = "https://y.test"
  /\ \A i \in DOMAIN files[<<"pub", "/", "a", ".html">>] :
       files[<<"pub", "/", "a", ".html">>][i] # "https://x.test"

(***************************************************************************)
(* C23: the order of the entries of sitemap.xml                            *)
(***************************************************************************)

\* The date lastmod is derived from, lines 425-426: published_date, and
\* updated_at for a row without one.
SitemapDate(r) ==
  IF Truthy(r.published_date) THEN r.published_date ELSE r.updated_at

\* The published row an entry of the sitemap stands for.
RowOfEntry(e) ==
  CHOOSE a \in {x \in articles : x.published} :
    \E i \in 1..Len(e.loc) : e.loc[i] = a.slug[1]

\* C23: the sitemap has one url entry for every published page, no entry
\* of a blog page stands before one of another page, and within the blog
\* pages and within the others the entries are in descending order of the
\* date lastmod is derived from: published_date, else updated_at.
C23_SitemapOrder ==
  sitemap.written =>
    LET rows == {x \in articles : x.published}
    IN  /\ Len(sitemap.urls) = Cardinality(rows)
        /\ \A a \in rows :
             \E i \in 1..Len(sitemap.urls) : RowOfEntry(sitemap.urls[i]) = a
        /\ \A i, j \in 1..Len(sitemap.urls) :
             i < j =>
               LET x == RowOfEntry(sitemap.urls[i])
                   y == RowOfEntry(sitemap.urls[j])
               IN  /\ ~(x.type = "blog" /\ y.type # "blog")
                   /\ (x.type = "blog" <=> y.type = "blog")
                        => ~TextLess(SitemapDate(x), SitemapDate(y))

====
